---- MODULE Spec2Model ----
(***************************************************************************)
(* The bulk ingestion and aggregation pipeline of pathtorehab.com          *)
(* (scripts/ingest-data.ts) against a row store with the schema of         *)
(* scripts/init-db.ts.                                                     *)
(*                                                                         *)
(* Conventions of the model                                                *)
(*  - a JavaScript string is a sequence of one-character strings, so that  *)
(*    slugs, slices and joined keys are computed as the code computes them *)
(*  - an optional property of a raw API row is a field that is or is not   *)
(*    in the DOMAIN of the row (undefined and null behave alike in every   *)
(*    test the code makes)                                                 *)
(*  - a nullable column of a database record is <<>> (null) or <<v>>       *)
(*  - latitude / longitude of a raw row are <<"s", str>> or <<"n", int>>   *)
(*  - a score is kept in hundredths (dqs 0.70 is 70)                       *)
(***************************************************************************)
EXTENDS Integers, Sequences, FiniteSets, TLC

VARIABLES
    args,           \* the input handed to a function under test
    ret,            \* what the function returned ("none" before the call)
    source,         \* the provider's pages: a sequence of sequences of rows
    failPages,      \* the pages whose request fails
    outage,         \* the store answers every call with an error
    DRY_RUN,        \* --dry-run
    TRUNCATE,       \* --truncate
    pc,             \* position of main()
    page,           \* fetchAllFacilities: page
    totalPages,     \* fetchAllFacilities: totalPages
    rawFacilities,  \* main: rawFacilities (fetchAllFacilities: allFacilities)
    allFacilities,  \* main: allFacilities
    skipped,        \* main: skipped
    facilities,     \* main: facilities (the deduplicated list)
    i,              \* insertFacilities: i (0-based offset of the chunk)
    k,              \* insertFacilities: position in the failing chunk
    inserted,       \* insertFacilities: inserted
    errors,         \* insertFacilities: errors
    dbFacilities,   \* table facilities, in scan order
    dbStates,       \* table states, in scan order
    dbCities,       \* table cities, in scan order
    dbMetadata,     \* table data_metadata (<<>> or <<row>>)
    cityScan,       \* populateCities: allFacilities
    offset,         \* populateCities: offset
    calls,          \* every call made to the store, in order
    run,            \* number of the run of main() in progress
    fetchFailed,    \* the runs in which a page request failed
    storeFailed,    \* the runs in which a store call failed
    killed,         \* the runs that were terminated before their end
    store0,         \* the store before the first run
    after1,         \* the store after the first run that completed
    requested,      \* fetchAllFacilities: the pages requested, in order
    credentials,    \* the store credentials can be read
    exitCode,       \* <<>> while the process runs, <<code>> once it ended
    metadata,       \* checkForUpdate: metadata (<<>> is null)
    latest,         \* checkForUpdate: latest (<<>> is null)
    result,         \* check-samhsa-update main: result (<<>> before the return)
    duplicates,     \* dedupeFacilities: duplicates (ids to delete)
    deleted         \* dedupeFacilities: deleted

vars == <<args, ret, source, failPages, outage, DRY_RUN, TRUNCATE, pc, page, totalPages,
          rawFacilities, allFacilities, skipped, facilities, i, k, inserted,
          errors, dbFacilities, dbStates, dbCities, dbMetadata, cityScan,
          offset, calls, run, fetchFailed, storeFailed, killed, store0, after1,
          requested, credentials, exitCode, metadata, latest, result,
          duplicates, deleted>>

---------------------------------------------------------------------------
(* Strings *)

LOWER == <<"a","b","c","d","e","f","g","h","i","j","k","l","m",
           "n","o","p","q","r","s","t","u","v","w","x","y","z">>
UPPER == <<"A","B","C","D","E","F","G","H","I","J","K","L","M",
           "N","O","P","Q","R","S","T","U","V","W","X","Y","Z">>
DIGITS == <<"0","1","2","3","4","5","6","7","8","9">>
WHITESPACE == {" "}

Range(s) == {s[n] : n \in DOMAIN s}

Min(a, b) == IF a <= b THEN a ELSE b

toLowerCase(s) ==
    [n \in DOMAIN s |->
        IF \E m \in DOMAIN UPPER : UPPER[m] = s[n]
        THEN LOWER[CHOOSE m \in DOMAIN UPPER : UPPER[m] = s[n]]
        ELSE s[n]]

RECURSIVE DropWhile(_, _)
DropWhile(s, C) ==
    IF s # <<>> /\ Head(s) \in C THEN DropWhile(Tail(s), C) ELSE s

\* s.replace(/C+/g, '-') for a character class C
RECURSIVE ReplaceRuns(_, _)
ReplaceRuns(s, C) ==
    IF s = <<>> THEN <<>>
    ELSE IF Head(s) \in C
         THEN <<"-">> \o ReplaceRuns(DropWhile(Tail(s), C), C)
         ELSE <<Head(s)>> \o ReplaceRuns(Tail(s), C)

RECURSIVE DropTrailing(_, _)
DropTrailing(s, C) ==
    IF s # <<>> /\ s[Len(s)] \in C
    THEN DropTrailing(SubSeq(s, 1, Len(s) - 1), C) ELSE s

trim(s) == DropTrailing(DropWhile(s, WHITESPACE), WHITESPACE)

SLUG_MAX == 100

IsSlugChar(c) == c \in Range(LOWER) \cup Range(DIGITS) \cup WHITESPACE \cup {"-"}

slugify(text) ==
    LET lowered  == toLowerCase(text)
        stripped == SelectSeq(lowered, IsSlugChar)
        dashed   == ReplaceRuns(stripped, WHITESPACE)
        single   == ReplaceRuns(dashed, {"-"})
        trimmed  == trim(single)
    IN  SubSeq(trimmed, 1, Min(Len(trimmed), SLUG_MAX))

\* String(n) for an integer n
RECURSIVE NatToString(_)
NatToString(n) ==
    IF n < 10 THEN <<DIGITS[n + 1]>>
    ELSE NatToString(n \div 10) \o <<DIGITS[(n % 10) + 1]>>

IntToString(n) == IF n < 0 THEN <<"-">> \o NatToString(-n) ELSE NatToString(n)

SUFFIX_LEN == 6

\* s.slice(-6)
SliceLast(s) ==
    IF Len(s) <= SUFFIX_LEN THEN s ELSE SubSeq(s, Len(s) - SUFFIX_LEN + 1, Len(s))

FACILITY_PREFIX == <<"f","a","c","i","l","i","t","y","-">>

createFacilitySlug(name, city, state, externalId) ==
    LET base   == slugify(name \o <<" ">> \o city \o <<" ">> \o state)
        suffix == SliceLast(IntToString(externalId))
    IN  IF base # <<>> THEN base \o <<"-">> \o suffix
        ELSE FACILITY_PREFIX \o toLowerCase(state) \o <<"-">> \o suffix

\* parseFloat(s) on the strings of the model (no fraction, no exponent):
\* leading whitespace, an optional sign, digits; <<>> is NaN, <<v>> a number
RECURSIVE DigitsValue(_, _)
DigitsValue(s, acc) ==
    IF s = <<>> \/ Head(s) \notin Range(DIGITS) THEN acc
    ELSE DigitsValue(Tail(s),
            10 * acc + (CHOOSE d \in 0..9 : DIGITS[d + 1] = Head(s)))

parseFloat(s) ==
    LET t    == DropWhile(s, WHITESPACE)
        neg  == t # <<>> /\ Head(t) = "-"
        body == IF t # <<>> /\ Head(t) \in {"-", "+"} THEN Tail(t) ELSE t
    IN  IF body = <<>> \/ Head(body) \notin Range(DIGITS) THEN <<>>
        ELSE IF neg THEN <<-DigitsValue(body, 0)>> ELSE <<DigitsValue(body, 0)>>

---------------------------------------------------------------------------
(* Raw rows *)

Has(raw, f) == f \in DOMAIN raw

\* JavaScript truthiness of an optional string property
Truthy(raw, f) == Has(raw, f) /\ raw[f] # <<>>

\* String(x || '') for a latitude or longitude
CoordString(raw, f) ==
    IF ~Has(raw, f) THEN <<>>
    ELSE IF raw[f][1] = "n"
         THEN (IF raw[f][2] = 0 THEN <<>> ELSE IntToString(raw[f][2]))
         ELSE raw[f][2]

\* f !== null && f !== undefined && f !== ''
Filled(raw, f) ==
    /\ Has(raw, f)
    /\ IF f \in {"latitude", "longitude"} THEN raw[f] # <<"s", <<>>>>
       ELSE IF f = "services" THEN TRUE
       ELSE raw[f] # <<>>

DQS_FIELDS == {"name1", "street1", "city", "state", "zip", "phone", "website",
               "latitude", "longitude", "services"}

servicesCount(raw) == IF Has(raw, "services") THEN Len(raw.services) ELSE 0

\* Math.round(x * 100) / 100 for a score x given in thousandths; the result
\* is in hundredths
Round2(milli) == (milli + 5) \div 10

calculateDQS(facility) ==
    LET filled  == Cardinality({f \in DQS_FIELDS : Filled(facility, f)})
        fieldsT == (filled * 400) \div Cardinality(DQS_FIELDS)
        svcT    == IF servicesCount(facility) > 3 THEN 300
                   ELSE IF servicesCount(facility) > 0 THEN 150 ELSE 0
        lat     == parseFloat(CoordString(facility, "latitude"))
        lon     == parseFloat(CoordString(facility, "longitude"))
        locT    == IF lat # <<>> /\ lon # <<>> /\ lat[1] # 0 /\ lon[1] # 0
                   THEN 200 ELSE 0
        conT    == IF Truthy(facility, "phone") \/ Truthy(facility, "website")
                      \/ Truthy(facility, "intake1")
                   THEN 100 ELSE 0
    IN  Round2(fieldsT + svcT + locT + conT)

---------------------------------------------------------------------------
(* Record Transformer *)

OHIO == <<"O","h","i","o">>
IOWA == <<"I","o","w","a">>
UTAH == <<"U","t","a","h">>

\* the entries of US_STATES that the model's rows use
US_STATES == [c \in {<<"O","H">>, <<"I","A">>, <<"U","T">>} |->
                 IF c = <<"O","H">> THEN OHIO
                 ELSE IF c = <<"I","A">> THEN IOWA ELSE UTAH]

\* an id drawn afresh in every run
ExternalId_perRun(raw, index) == run * 100 + index

\* raw._irow || index
ExternalId(raw, index) ==
    IF Has(raw, "_irow") /\ raw._irow # 0 THEN raw._irow ELSE index

\* x || null for an optional string property
OrNull(raw, f) == IF Truthy(raw, f) THEN <<raw[f]>> ELSE <<>>

\* the required-field test comparing with undefined only
Rejected_undefinedOnly(raw) ==
    ~Has(raw, "name1") \/ ~Has(raw, "city") \/ ~Has(raw, "state")

Rejected(raw) ==
    ~Truthy(raw, "name1") \/ ~Truthy(raw, "city") \/ ~Truthy(raw, "state")

INDEXABLE_MIN == 70

\* the threshold taken as a strict one
IsIndexable_strict(dqs) == dqs > INDEXABLE_MIN

IsIndexable(dqs) == dqs >= INDEXABLE_MIN

\* <<>> is null, <<record>> a FacilityRecord
transformFacility(raw, index) ==
    IF Rejected(raw) THEN <<>>
    ELSE
    LET stateName  == IF raw.state \in DOMAIN US_STATES
                      THEN US_STATES[raw.state] ELSE raw.state
        externalId == ExternalId(raw, index)
        dqs        == calculateDQS(raw)
    IN  << [ external_id  |-> IntToString(ExternalId(raw, index)),
             name         |-> raw.name1,
             slug         |-> createFacilitySlug(raw.name1, raw.city, raw.state,
                                                 externalId),
             street1      |-> OrNull(raw, "street1"),
             city         |-> raw.city,
             city_slug    |-> slugify(raw.city),
             state        |-> raw.state,
             state_name   |-> stateName,
             phone        |-> OrNull(raw, "phone"),
             latitude     |-> parseFloat(CoordString(raw, "latitude")),
             longitude    |-> parseFloat(CoordString(raw, "longitude")),
             dqs          |-> dqs,
             is_indexable |-> IsIndexable(dqs) ] >>

\* the transform loop without its count of the rows left out
TransformAll_uncounted(raws) ==
    LET out  == [n \in DOMAIN raws |-> transformFacility(raws[n], n - 1)]
        IsRecord(t) == t # <<>>
        kept == SelectSeq(out, IsRecord)
    IN  << [n \in DOMAIN kept |-> kept[n][1]], 0 >>

\* main, step 2: the transform loop; <<allFacilities, skipped>>
TransformAll(raws) ==
    LET out  == [n \in DOMAIN raws |-> transformFacility(raws[n], n - 1)]
        IsRecord(t) == t # <<>>
        kept == SelectSeq(out, IsRecord)
    IN  << [n \in DOMAIN kept |-> kept[n][1]], Len(raws) - Len(kept) >>

---------------------------------------------------------------------------
(* Deduplicator *)

DQS_MAX == 100

\* Array.prototype.sort((a, b) => b.dqs - a.dqs): stable, descending
\* the records of s with a score of at most v: those with the highest such
\* score in their order in s, then the rest
RECURSIVE SortFrom(_, _)
SortFrom(s, v) ==
    LET left == {s[n].dqs : n \in DOMAIN s} \cap 0..v
    IN  IF left = {} THEN <<>>
        ELSE LET top == CHOOSE x \in left : \A y \in left : y <= x
                 Scores(r) == r.dqs = top
             IN  SelectSeq(s, Scores) \o SortFrom(s, top - 1)

SortByDqsDesc(s) == SortFrom(s, DQS_MAX)

OrEmpty(x) == IF x = <<>> THEN <<>> ELSE x[1]

\* `${name}|${street1 || ''}|${city}|${state}|${phone || ''}`
DedupeKey(f) ==
    f.name \o <<"|">> \o OrEmpty(f.street1) \o <<"|">> \o f.city \o <<"|">>
           \o f.state \o <<"|">> \o OrEmpty(f.phone)

\* the values of the Map `seen`, in insertion order
FirstPerKey(s) ==
    LET keys == [n \in DOMAIN s |-> DedupeKey(s[n])]
        First(n) == \A m \in 1..(n - 1) : keys[m] # keys[n]
        kept == SelectSeq([n \in DOMAIN s |-> n], First)
    IN  [n \in DOMAIN kept |-> s[kept[n]]]

\* main, step 2b
Deduplicate(all) == FirstPerKey(SortByDqsDesc(all))

---------------------------------------------------------------------------
(* The store: tables facilities, states, cities, data_metadata *)

BATCH_SIZE == 1000
PAGE_SIZE == 100

\* rows the backend returns for one select
MAX_ROWS == 1000

\* latitude DECIMAL(10, 8), longitude DECIMAL(11, 8)
LAT_LIMIT == 100
LON_LIMIT == 1000

Abs(x) == IF x < 0 THEN -x ELSE x

\* the conflict target of an upsert into the table
Key(table, r) ==
    CASE table = "facilities" -> r.external_id
      [] table = "states"     -> r.code
      [] table = "cities"     -> <<r.slug, r.state_code>>
      [] OTHER                -> r.id

Overflows(r) ==
    \/ r.latitude # <<>> /\ Abs(r.latitude[1]) >= LAT_LIMIT
    \/ r.longitude # <<>> /\ Abs(r.longitude[1]) >= LON_LIMIT

\* INSERT ... ON CONFLICT (key) DO UPDATE: a row with the key is replaced
\* where it stands, a new row is added at the end
Merged(table, rows, batch) ==
    LET bkeys == {Key(table, batch[m]) : m \in DOMAIN batch}
        tkeys == {Key(table, rows[n]) : n \in DOMAIN rows}
        Incoming(key) ==
            batch[CHOOSE m \in DOMAIN batch : Key(table, batch[m]) = key]
        IsNew(r) == Key(table, r) \notin tkeys
    IN  [n \in DOMAIN rows |->
            IF Key(table, rows[n]) \in bkeys
            THEN Incoming(Key(table, rows[n])) ELSE rows[n]]
        \o SelectSeq(batch, IsNew)

\* the statement fails as a whole: the store is unreachable, two rows of the
\* batch hit the same key, a coordinate does not fit its column, or a slug
\* declared UNIQUE would occur twice
UpsertFails(down, table, rows, batch) ==
    \/ down
    \/ Cardinality({Key(table, batch[m]) : m \in DOMAIN batch}) # Len(batch)
    \/ table = "facilities" /\ \E m \in DOMAIN batch : Overflows(batch[m])
    \/ /\ table \in {"facilities", "states"}
       /\ LET after == Merged(table, rows, batch)
          IN  Cardinality({after[n].slug : n \in DOMAIN after}) # Len(after)

Upsert(down, table, rows, batch) ==
    IF UpsertFails(down, table, rows, batch) THEN rows ELSE Merged(table, rows, batch)

\* select without a range: the first MAX_ROWS rows
Select(rows) == SubSeq(rows, 1, Min(Len(rows), MAX_ROWS))

\* select ... range(from, to), both 0-based and inclusive
SelectRange(rows, from, to) ==
    SubSeq(rows, from + 1, Min(Len(rows), Min(to + 1, from + MAX_ROWS)))

\* one call to the store: the operation, the table, the position in the
\* caller's list of the first record it carries, how many records it carries
\* (or rows it returns), and whether it succeeded
Call(op, table, first, n, ok) ==
    [op |-> op, table |-> table, first |-> first, n |-> n, ok |-> ok]

---------------------------------------------------------------------------
(* Batch Persister *)

\* the slice without its upper end
Chunk_unbounded(list, from) == SubSeq(list, from + 1, Len(list))

\* facilities.slice(i, i + BATCH_SIZE)
Chunk(list, from) == SubSeq(list, from + 1, Min(Len(list), from + BATCH_SIZE))

---------------------------------------------------------------------------
(* Aggregator *)

Minimum(S) == CHOOSE x \in S : \A y \in S : x <= y

\* the positions at which a key occurs for the first time
FirstIndices(keys) ==
    LET First(n) == \A m \in 1..(n - 1) : keys[m] # keys[n]
    IN  SelectSeq([n \in DOMAIN keys |-> n], First)

\* populateStates: the records built from the rows of one select
StateRecords(rows) ==
    LET codes  == [n \in DOMAIN rows |-> rows[n].state]
        firsts == FirstIndices(codes)
    IN  [n \in DOMAIN firsts |->
            LET name == rows[firsts[n]].state_name
            IN  [ code |-> codes[firsts[n]],
                  name |-> name,
                  slug |-> slugify(name),
                  facility_count |->
                      Cardinality({m \in DOMAIN rows : codes[m] = codes[firsts[n]]}) ]]

\* upsert in batches of BATCH_SIZE, a failing batch being skipped
RECURSIVE UpsertBatches(_, _, _, _, _)
UpsertBatches(down, table, rows, records, from) ==
    IF from >= Len(records) THEN rows
    ELSE UpsertBatches(down, table, Upsert(down, table, rows, Chunk(records, from)),
                       records, from + BATCH_SIZE)

RECURSIVE BatchCalls(_, _, _, _, _)
BatchCalls(down, table, rows, records, from) ==
    IF from >= Len(records) THEN <<>>
    ELSE <<Call("upsert", table, from, Len(Chunk(records, from)),
                ~UpsertFails(down, table, rows, Chunk(records, from)))>>
         \o BatchCalls(down, table, Upsert(down, table, rows, Chunk(records, from)),
                       records, from + BATCH_SIZE)

\* JavaScript truthiness of a nullable number
TruthyNumber(x) == x # <<>> /\ x[1] # 0

\* `${row.city_slug}-${row.state}`
CityKey(row) == row.city_slug \o <<"-">> \o row.state

\* populateCities: the records built from the rows read; the coordinates of
\* a city are those of its first row, replaced once by those of the first
\* later row with a latitude when the first row has none
CityRecords(rows) ==
    LET keys   == [n \in DOMAIN rows |-> CityKey(rows[n])]
        firsts == FirstIndices(keys)
    IN  [n \in DOMAIN firsts |->
            LET f       == firsts[n]
                members == {m \in DOMAIN rows : keys[m] = keys[f]}
                later   == {m \in members : m > f /\ TruthyNumber(rows[m].latitude)}
                from    == IF TruthyNumber(rows[f].latitude) \/ later = {}
                           THEN f ELSE Minimum(later)
            IN  [ name |-> rows[f].city,
                  slug |-> rows[f].city_slug,
                  state_code |-> rows[f].state,
                  facility_count |-> Cardinality(members),
                  latitude |-> rows[from].latitude,
                  longitude |-> rows[from].longitude ]]

---------------------------------------------------------------------------
(* Inputs of the functions under test *)

\* a property that is absent, or present with one of the values
Opt(f, values) == {<<>>} \cup {f :> v : v \in values}

ServiceItems(n) == [m \in 1..n |-> [f2 |-> "TC"]]

\* number of times a function is called on one input
MaxCalls == 2

\* largest ordinal index handed to transformFacility
MaxIndex == 1

LatValues == {<<"s", <<>>>>, <<"s", <<"x">>>>, <<"s", <<"0">>>>,
              <<"s", <<"4","0">>>>, <<"n", 0>>, <<"n", 40>>}
LonValues == {<<"s", <<>>>>, <<"s", <<"0">>>>, <<"s", <<"-","8","3">>>>}

DqsRows ==
    {a @@ b @@ c @@ d @@ e @@ f @@ g @@ h @@ la @@ lo @@ sv :
        a \in Opt("name1", {<<>>, <<"a">>}),
        b \in Opt("street1", {<<"b">>}),
        c \in Opt("city", {<<"c">>}),
        d \in Opt("state", {<<"O","H">>}),
        e \in Opt("zip", {<<"9">>}),
        f \in Opt("phone", {<<>>, <<"5">>}),
        g \in Opt("website", {<<"w">>}),
        h \in Opt("intake1", {<<"7">>}),
        la \in Opt("latitude", LatValues),
        lo \in Opt("longitude", LonValues),
        sv \in Opt("services", {ServiceItems(0), ServiceItems(1),
                                ServiceItems(3), ServiceItems(4)})}

\* everything a row can carry besides name, city, state and _irow
FullRest ==
    [street1 |-> <<"b">>, zip |-> <<"9">>, phone |-> <<"5">>, website |-> <<"w">>,
     latitude |-> <<"s", <<"4","0">>>>, longitude |-> <<"s", <<"-","8","3">>>>,
     services |-> ServiceItems(4)]

IrowValues == {0, 1, 2, 1000001, 2000001}

TransformRows ==
    {a @@ c @@ d @@ r @@ rest :
        a \in Opt("name1", {<<>>, <<"a">>, <<"A"," ","|","b">>}),
        c \in Opt("city", {<<>>, <<"c">>}),
        d \in Opt("state", {<<>>, <<"O","H">>}),
        r \in Opt("_irow", IrowValues),
        rest \in {<<>>, FullRest}}

\* the second row of a pair: the first with another _irow
WithIrow(raw, r) ==
    [f \in (DOMAIN raw \ {"_irow"}) |-> raw[f]] @@ r

\* longest list handed to the deduplication
MaxDedupe == 3

DedupeRows ==
    {[name1 |-> n, city |-> <<"c">>, state |-> <<"O","H">>] @@ st @@ q :
        n \in {<<"a">>, <<"a","|","b">>},
        st \in Opt("street1", {<<"b">>, <<"b","|">>}),
        q \in {<<>>, [zip |-> <<"9">>],
               [zip |-> <<"9">>, website |-> <<"w">>, services |-> ServiceItems(4)]}}

DedupeInputs ==
    UNION {[1..n -> DedupeRows] : n \in 0..MaxDedupe}

\* main() is not running
PipelineIdle ==
    /\ source = <<>> /\ failPages = {} /\ outage = FALSE
    /\ DRY_RUN = FALSE /\ TRUNCATE = FALSE
    /\ pc = "idle" /\ page = 1 /\ totalPages = 1
    /\ rawFacilities = <<>> /\ allFacilities = <<>> /\ skipped = 0
    /\ facilities = <<>> /\ i = 0 /\ k = 0 /\ inserted = 0 /\ errors = 0
    /\ dbFacilities = <<>> /\ dbStates = <<>> /\ dbCities = <<>>
    /\ dbMetadata = <<>> /\ cityScan = <<>> /\ offset = 0 /\ calls = <<>>
    /\ run = 0 /\ fetchFailed = {} /\ storeFailed = {} /\ killed = {}
    /\ store0 = <<>> /\ after1 = <<>>
    /\ requested = <<>> /\ credentials = TRUE /\ exitCode = <<>>
    /\ metadata = <<>> /\ latest = <<>> /\ result = <<>>
    /\ duplicates = <<>> /\ deleted = 0

pipelineVars ==
    <<source, failPages, outage, DRY_RUN, TRUNCATE, pc, page, totalPages,
      rawFacilities, allFacilities, skipped, facilities, i, k, inserted,
      errors, dbFacilities, dbStates, dbCities, dbMetadata, cityScan,
      offset, calls, run, fetchFailed, storeFailed, killed, store0, after1,
      requested, credentials, exitCode, metadata, latest, result,
      duplicates, deleted>>

InitDQS ==
    /\ args \in {<<r>> : r \in DqsRows}
    /\ ret = <<>>
    /\ PipelineIdle

CallCalculateDQS ==
    /\ Len(ret) < MaxCalls
    /\ ret' = Append(ret, calculateDQS(args[1]))
    /\ UNCHANGED <<args, pipelineVars>>

NextDQS == CallCalculateDQS

SpecDQS == InitDQS /\ [][NextDQS]_vars

InitTransform ==
    /\ args \in {<<raw, n, WithIrow(raw, r), m>> :
                    raw \in TransformRows, n \in 0..MaxIndex,
                    r \in Opt("_irow", IrowValues), m \in 0..MaxIndex}
    /\ ret = <<>>
    /\ PipelineIdle

CallTransformFacility ==
    /\ ret = <<>>
    /\ ret' = <<transformFacility(args[1], args[2]),
                transformFacility(args[3], args[4])>>
    /\ UNCHANGED <<args, pipelineVars>>

NextTransform == CallTransformFacility

SpecTransform == InitTransform /\ [][NextTransform]_vars

\* transformFacility on every row the score is computed for
InitIndexable ==
    /\ args \in {<<r>> : r \in DqsRows}
    /\ ret = <<>>
    /\ PipelineIdle

CallTransformScored ==
    /\ ret = <<>>
    /\ ret' = <<transformFacility(args[1], 0)>>
    /\ UNCHANGED <<args, pipelineVars>>

NextIndexable == CallTransformScored

SpecIndexable == InitIndexable /\ [][NextIndexable]_vars

InitDedupe ==
    /\ args \in {<<TransformAll(raws)[1]>> : raws \in DedupeInputs}
    /\ ret = <<>>
    /\ PipelineIdle

CallDeduplicate ==
    /\ ret = <<>>
    /\ ret' = <<Deduplicate(args[1])>>
    /\ UNCHANGED <<args, pipelineVars>>

NextDedupe == CallDeduplicate

SpecDedupe == InitDedupe /\ [][NextDedupe]_vars

---------------------------------------------------------------------------
(* The environment of a run: the provider's pages and the store before it *)

\* rows of a source other than the bulk source
MaxRows == 2

\* runs of main() in one behaviour
MaxRuns == 2

\* rows of the bulk source beyond one full chunk
BulkExtra == 1

RowA == [_irow |-> 1, name1 |-> <<"a">>, city |-> <<"c">>, state |-> <<"O","H">>]
        @@ FullRest
\* the natural key of RowA, fewer fields
RowB == [_irow |-> 2, name1 |-> <<"a">>, street1 |-> <<"b">>, city |-> <<"c">>,
         state |-> <<"O","H">>, phone |-> <<"5">>]
\* no city
RowC == [_irow |-> 3, name1 |-> <<"e">>, state |-> <<"O","H">>]
\* no _irow, few fields
RowD == [name1 |-> <<"d">>, city |-> <<"D"," ","d">>, state |-> <<"U","T">>]
\* a latitude that does not fit its column
RowE == [_irow |-> 5, name1 |-> <<"e">>, city |-> <<"c">>, state |-> <<"O","H">>,
         latitude |-> <<"s", <<"4","0","0">>>>, longitude |-> <<"s", <<"7">>>>]
\* the city of RowA, other coordinates, more fields than RowA
RowG == [_irow |-> 6, name1 |-> <<"g">>, city |-> <<"c">>, state |-> <<"O","H">>,
         intake1 |-> <<"7">>, latitude |-> <<"n", 41>>,
         longitude |-> <<"n", -84>>, street1 |-> <<"b">>, zip |-> <<"9">>,
         phone |-> <<"5">>, website |-> <<"w">>, services |-> ServiceItems(4)]

SmallRows == {RowA, RowB, RowC, RowD, RowE, RowG}

\* the city of RowG, a latitude and no longitude
RowH == [_irow |-> 7, name1 |-> <<"h">>, city |-> <<"c">>, state |-> <<"O","H">>,
         latitude |-> <<"n", 41>>]

\* a row left by an earlier ingestion of another source
RowS == [_irow |-> 9, name1 |-> <<"s">>, city |-> <<"d">>, state |-> <<"U","T">>,
         latitude |-> <<"n", 39>>, longitude |-> <<"n", -111>>,
         services |-> ServiceItems(1)]

RECURSIVE Flatten(_)
Flatten(pages) ==
    IF Len(pages) = 0 THEN <<>>
    ELSE IF Len(pages) = 1 THEN pages[1]
    ELSE LET half == Len(pages) \div 2
         IN  Flatten(SubSeq(pages, 1, half))
                \o Flatten(SubSeq(pages, half + 1, Len(pages)))

\* the ways of cutting a list into non-empty pages
RECURSIVE Pagings(_)
Pagings(rows) ==
    IF rows = <<>> THEN {<<>>}
    ELSE UNION {{<<SubSeq(rows, 1, n)>> \o rest :
                    rest \in Pagings(SubSeq(rows, n + 1, Len(rows)))} :
                n \in 1..Len(rows)}

SmallSources ==
    UNION {Pagings(rows) : rows \in UNION {[1..n -> SmallRows] : n \in 0..MaxRows}}

\* three pages of one row each, the last row without _irow; three pages the
\* second of which has no row; four rows over three pages, the two of the first
\* page with one natural key, the one of the second page without a city; two
\* rows of one city, the first with half a coordinate pair
ScenarioSources ==
    {<<<<RowG>>, <<RowB>>, <<RowD>>>>, <<<<RowA>>, <<RowE>>, <<RowD>>>>,
     <<<<RowG>>, <<>>, <<RowD>>>>, <<<<RowA, RowB>>, <<RowC>>, <<RowG>>>>,
     <<<<RowH>>, <<RowG>>>>}

BulkRow(n) ==
    [_irow |-> n, name1 |-> <<"f">> \o NatToString(n), city |-> <<"c">>,
     state |-> IF n > BATCH_SIZE THEN <<"U","T">> ELSE <<"O","H">>]

\* pages of PAGE_SIZE rows, the last one shorter
Paginate(rows) ==
    [p \in 1..((Len(rows) + PAGE_SIZE - 1) \div PAGE_SIZE) |->
        SubSeq(rows, (p - 1) * PAGE_SIZE + 1, Min(Len(rows), p * PAGE_SIZE))]

BulkRows == [n \in 1..(BATCH_SIZE + BulkExtra) |-> BulkRow(n)]

\* the bulk source, and the bulk source with one row the store rejects
BulkSources ==
    {Paginate(BulkRows),
     Paginate([BulkRows EXCEPT ![2] = RowE])}

EmptyStore == [facilities |-> <<>>, states |-> <<>>, cities |-> <<>>,
               metadata |-> <<>>]

\* populateCities: the rows read page by page
RECURSIVE ReadPages(_, _)
ReadPages(rows, from) ==
    LET data == SelectRange(rows, from, from + MAX_ROWS - 1)
    IN  IF Len(data) = 0 THEN <<>>
        ELSE IF Len(data) < MAX_ROWS THEN data
        ELSE data \o ReadPages(rows, from + MAX_ROWS)

MetadataRow(count, stamp) ==
    [id |-> 1, record_count |-> count, last_updated |-> stamp,
     last_checked_at |-> stamp]

\* main() from start to end on a store, when no request and no store call
\* fails
RunResult(store, pages, truncate, dry, stamp) ==
    IF dry THEN store
    ELSE
    LET base == IF truncate
                THEN [store EXCEPT !.facilities = <<>>, !.cities = <<>>,
                                   !.states = <<>>]
                ELSE store
        list == Deduplicate(TransformAll(Flatten(pages))[1])
        f1   == UpsertBatches(FALSE, "facilities", base.facilities, list, 0)
        s1   == UpsertBatches(FALSE, "states", base.states, StateRecords(Select(f1)), 0)
        c1   == UpsertBatches(FALSE, "cities", base.cities,
                              CityRecords(ReadPages(f1, 0)), 0)
    IN  [facilities |-> f1, states |-> s1, cities |-> c1,
         metadata |-> Upsert(FALSE, "data_metadata", base.metadata,
                             <<MetadataRow(Len(f1), stamp)>>)]

Store == [facilities |-> dbFacilities, states |-> dbStates, cities |-> dbCities,
          metadata |-> dbMetadata]

---------------------------------------------------------------------------
(* main() *)

ProgramStart ==
    /\ pc = "start" /\ page = 1 /\ totalPages = 1
    /\ rawFacilities = <<>> /\ allFacilities = <<>> /\ skipped = 0
    /\ facilities = <<>> /\ i = 0 /\ k = 0 /\ inserted = 0 /\ errors = 0
    /\ cityScan = <<>> /\ offset = 0 /\ calls = <<>>
    /\ requested = <<>> /\ exitCode = <<>>

InitRun ==
    /\ args = <<>> /\ ret = <<>>
    /\ ProgramStart
    /\ fetchFailed = {} /\ storeFailed = {} /\ killed = {}
    /\ after1 = <<>>
    /\ store0 = <<Store>>
    /\ metadata = <<>> /\ latest = <<>> /\ result = <<>>
    /\ duplicates = <<>> /\ deleted = 0

InitSmall ==
    /\ run = 1
    /\ (source \in SmallSources \/ source \in ScenarioSources)
    /\ failPages \in {{}, {1}, {2}}
    /\ outage \in BOOLEAN
    /\ DRY_RUN \in BOOLEAN
    /\ TRUNCATE \in BOOLEAN
    /\ credentials \in BOOLEAN
    /\ \E st \in {EmptyStore, RunResult(EmptyStore, <<<<RowS>>>>, FALSE, FALSE, 0)} :
          /\ dbFacilities = st.facilities /\ dbStates = st.states
          /\ dbCities = st.cities /\ dbMetadata = st.metadata
    /\ InitRun

InitBulk ==
    /\ run = 1
    /\ source \in BulkSources
    /\ failPages = {} /\ outage = FALSE /\ DRY_RUN = FALSE /\ TRUNCATE = FALSE
    /\ credentials = TRUE
    /\ dbFacilities = <<>> /\ dbStates = <<>> /\ dbCities = <<>>
    /\ dbMetadata = <<>>
    /\ InitRun

Init == InitSmall \/ InitBulk

checkVars == <<metadata, latest, result>>
maintenanceVars == <<duplicates, deleted>>
inputVars == <<args, ret, source, failPages, outage, DRY_RUN, TRUNCATE, run,
               killed, store0, after1, credentials, checkVars, maintenanceVars>>
envVars == <<inputVars, exitCode>>
fetchVars == <<page, totalPages, rawFacilities, requested>>
insertVars == <<i, k, inserted, errors>>
dbVars == <<dbFacilities, dbStates, dbCities, dbMetadata>>

\* the runs in which a store call failed, after the calls cs of this run
Failing(cs) ==
    IF \E n \in DOMAIN cs : ~cs[n].ok THEN storeFailed \cup {run} ELSE storeFailed

\* the truncation carried out whatever --dry-run says
TruncateRequested_alsoDry == TRUNCATE

\* if (TRUNCATE && !DRY_RUN)
TruncateRequested == TRUNCATE /\ ~DRY_RUN

\* loadCredentials, createClient; loadCredentials throws when the credentials
\* cannot be read, and main() is rejected
Start ==
    /\ pc = "start"
    /\ pc' = IF ~credentials THEN "rejected"
             ELSE IF TruncateRequested THEN "truncate_facilities" ELSE "fetch"
    /\ UNCHANGED <<envVars, fetchVars, allFacilities, skipped, facilities,
                   insertVars, dbVars, cityScan, offset, calls, fetchFailed,
                   storeFailed>>

\* main().catch(console.error): the error is printed, nothing sets an exit
\* code, and the process ends when the event loop is empty
CatchError ==
    /\ pc = "rejected"
    /\ pc' = "failed"
    /\ exitCode' = <<0>>
    /\ UNCHANGED <<inputVars, fetchVars, allFacilities, skipped, facilities,
                   insertVars, dbVars, cityScan, offset, calls, fetchFailed,
                   storeFailed>>

\* supabase.from(table).delete(): every row, unless the call fails
Deleted(rows) == IF outage THEN rows ELSE <<>>

TruncateFacilities ==
    /\ pc = "truncate_facilities"
    /\ dbFacilities' = Deleted(dbFacilities)
    /\ calls' = Append(calls, Call("delete", "facilities", 0, 0, ~outage))
    /\ storeFailed' = Failing(calls')
    /\ pc' = "truncate_cities"
    /\ UNCHANGED <<envVars, fetchVars, allFacilities, skipped, facilities,
                   insertVars, dbStates, dbCities, dbMetadata, cityScan, offset,
                   fetchFailed>>

TruncateCities ==
    /\ pc = "truncate_cities"
    /\ dbCities' = Deleted(dbCities)
    /\ calls' = Append(calls, Call("delete", "cities", 0, 0, ~outage))
    /\ storeFailed' = Failing(calls')
    /\ pc' = "truncate_states"
    /\ UNCHANGED <<envVars, fetchVars, allFacilities, skipped, facilities,
                   insertVars, dbFacilities, dbStates, dbMetadata, cityScan,
                   offset, fetchFailed>>

TruncateStates ==
    /\ pc = "truncate_states"
    /\ dbStates' = Deleted(dbStates)
    /\ calls' = Append(calls, Call("delete", "states", 0, 0, ~outage))
    /\ storeFailed' = Failing(calls')
    /\ pc' = "fetch"
    /\ UNCHANGED <<envVars, fetchVars, allFacilities, skipped, facilities,
                   insertVars, dbFacilities, dbCities, dbMetadata, cityScan,
                   offset, fetchFailed>>

\* the provider's answer to a request for page p
PageRows(p) == IF p \in DOMAIN source THEN source[p] ELSE <<>>

\* fetchAllFacilities: one turn of the loop
FetchPage ==
    /\ pc = "fetch"
    /\ IF page \in failPages
       THEN /\ fetchFailed' = fetchFailed \cup {run}
            /\ UNCHANGED <<totalPages, rawFacilities>>
       ELSE /\ totalPages' = IF Len(source) = 0 THEN 1 ELSE Len(source)
            /\ rawFacilities' = rawFacilities \o PageRows(page)
            /\ UNCHANGED fetchFailed
    /\ requested' = Append(requested, page)
    /\ page' = page + 1
    /\ pc' = IF page' <= totalPages' THEN "fetch" ELSE "transform"
    /\ UNCHANGED <<envVars, allFacilities, skipped, facilities, insertVars,
                   dbVars, cityScan, offset, calls, storeFailed>>

\* main, step 2
Transform ==
    /\ pc = "transform"
    /\ allFacilities' = TransformAll(rawFacilities)[1]
    /\ skipped' = TransformAll(rawFacilities)[2]
    /\ pc' = "dedupe"
    /\ UNCHANGED <<envVars, fetchVars, facilities, insertVars, dbVars, cityScan,
                   offset, calls, fetchFailed, storeFailed>>

\* main, step 2b
Dedupe ==
    /\ pc = "dedupe"
    /\ allFacilities' = SortByDqsDesc(allFacilities)
    /\ facilities' = Deduplicate(allFacilities)
    /\ pc' = IF Len(facilities') = 0 THEN "states" ELSE "insert"
    /\ UNCHANGED <<envVars, fetchVars, skipped, insertVars, dbVars, cityScan,
                   offset, calls, fetchFailed, storeFailed>>

\* const duplicatesRemoved = allFacilities.length - facilities.length
duplicatesRemoved == Len(allFacilities) - Len(facilities)

\* the deduplication entered again once a chunk is written
AfterChunk_dedupeAgain(next) == "dedupe"

\* i += BATCH_SIZE; i < facilities.length
AfterChunk(next) == IF next < Len(facilities) THEN "insert" ELSE "states"

\* insertFacilities: one turn of the loop, up to the chunk's upsert
InsertChunk ==
    /\ pc = "insert"
    /\ LET batch == Chunk(facilities, i)
       IN  IF DRY_RUN
           THEN /\ inserted' = inserted + Len(batch)
                /\ i' = i + BATCH_SIZE
                /\ pc' = AfterChunk(i')
                /\ UNCHANGED <<k, errors, dbFacilities, calls, storeFailed>>
           ELSE /\ calls' = Append(calls,
                        Call("upsert", "facilities", i, Len(batch),
                             ~UpsertFails(outage, "facilities", dbFacilities, batch)))
                /\ storeFailed' = Failing(calls')
                /\ dbFacilities' = Upsert(outage, "facilities", dbFacilities, batch)
                /\ IF UpsertFails(outage, "facilities", dbFacilities, batch)
                   THEN /\ errors' = errors + 1
                        /\ k' = 0
                        /\ pc' = "fallback"
                        /\ UNCHANGED <<i, inserted>>
                   ELSE /\ inserted' = inserted + Len(batch)
                        /\ i' = i + BATCH_SIZE
                        /\ pc' = AfterChunk(i')
                        /\ UNCHANGED <<k, errors>>
    /\ UNCHANGED <<envVars, fetchVars, allFacilities, skipped, facilities,
                   dbStates, dbCities, dbMetadata, cityScan, offset, fetchFailed>>

\* insertFacilities: one record of a failed chunk, upserted alone
FallbackRecord ==
    /\ pc = "fallback"
    /\ LET batch  == Chunk(facilities, i)
           record == batch[k + 1]
       IN  /\ calls' = Append(calls,
                   Call("upsert_one", "facilities", i + k, 1,
                        ~UpsertFails(outage, "facilities", dbFacilities, <<record>>)))
           /\ storeFailed' = Failing(calls')
           /\ dbFacilities' = Upsert(outage, "facilities", dbFacilities, <<record>>)
           /\ inserted' = IF UpsertFails(outage, "facilities", dbFacilities, <<record>>)
                          THEN inserted ELSE inserted + 1
           /\ IF k + 1 < Len(batch)
              THEN /\ k' = k + 1
                   /\ UNCHANGED <<i, pc>>
              ELSE /\ k' = 0
                   /\ i' = i + BATCH_SIZE
                   /\ pc' = AfterChunk(i')
    /\ UNCHANGED <<envVars, fetchVars, allFacilities, skipped, facilities, errors,
                   dbStates, dbCities, dbMetadata, cityScan, offset, fetchFailed>>

\* populateStates
PopulateStates ==
    /\ pc = "states"
    /\ IF DRY_RUN
       THEN UNCHANGED <<dbStates, calls, storeFailed>>
       ELSE LET rows    == Select(dbFacilities)
                records == StateRecords(rows)
            IN  IF outage
                THEN /\ calls' = Append(calls, Call("select", "facilities", 0, 0, FALSE))
                     /\ storeFailed' = Failing(calls')
                     /\ UNCHANGED dbStates
                ELSE /\ calls' = Append(calls,
                                        Call("select", "facilities", 0, Len(rows), TRUE))
                                 \o BatchCalls(outage, "states", dbStates, records, 0)
                     /\ storeFailed' = Failing(calls')
                     /\ dbStates' = UpsertBatches(outage, "states", dbStates, records, 0)
    /\ pc' = "cities_read"
    /\ UNCHANGED <<envVars, fetchVars, allFacilities, skipped, facilities,
                   insertVars, dbFacilities, dbCities, dbMetadata, cityScan,
                   offset, fetchFailed>>

\* populateCities: one turn of the reading loop
CitiesReadPage ==
    /\ pc = "cities_read"
    /\ IF DRY_RUN
       THEN /\ pc' = "done"
            /\ exitCode' = <<0>>
            /\ UNCHANGED <<cityScan, offset, calls, storeFailed>>
       ELSE LET data == SelectRange(dbFacilities, offset, offset + 999)
            IN  /\ exitCode' = exitCode
                /\ calls' = Append(calls,
                        Call("select", "facilities", offset,
                             IF outage THEN 0 ELSE Len(data), ~outage))
                /\ storeFailed' = Failing(calls')
                /\ IF outage \/ Len(data) = 0
                   THEN /\ pc' = "cities_write"
                        /\ UNCHANGED <<cityScan, offset>>
                   ELSE /\ cityScan' = cityScan \o data
                        /\ offset' = offset + 1000
                        /\ pc' = IF Len(data) < 1000 THEN "cities_write"
                                 ELSE "cities_read"
    /\ UNCHANGED <<inputVars, fetchVars, allFacilities, skipped, facilities,
                   insertVars, dbVars, fetchFailed>>

\* populateCities: count per city and upsert
CitiesWrite ==
    /\ pc = "cities_write"
    /\ LET records == CityRecords(cityScan)
       IN  /\ calls' = calls \o BatchCalls(outage, "cities", dbCities, records, 0)
           /\ dbCities' = UpsertBatches(outage, "cities", dbCities, records, 0)
    /\ storeFailed' = Failing(calls')
    /\ pc' = "verify"
    /\ UNCHANGED <<envVars, fetchVars, allFacilities, skipped, facilities,
                   insertVars, dbFacilities, dbStates, dbMetadata, cityScan,
                   offset, fetchFailed>>

\* main: the verification counts, then updateMetadata(facilityCount || 0)
Verify ==
    /\ pc = "verify"
    /\ LET facilityCount == IF outage THEN 0 ELSE Len(dbFacilities)
           row == MetadataRow(facilityCount, run)
       IN  /\ calls' = calls \o
                  << Call("count", "facilities", 0, 0, ~outage),
                     Call("count", "states", 0, 0, ~outage),
                     Call("count", "cities", 0, 0, ~outage),
                     Call("count", "facilities", 0, 0, ~outage),
                     Call("upsert", "data_metadata", 0, 1,
                          ~UpsertFails(outage, "data_metadata", dbMetadata, <<row>>)) >>
           /\ dbMetadata' = Upsert(outage, "data_metadata", dbMetadata, <<row>>)
    /\ storeFailed' = Failing(calls')
    /\ pc' = "done"
    /\ exitCode' = <<0>>
    /\ UNCHANGED <<inputVars, fetchVars, allFacilities, skipped, facilities,
                   insertVars, dbFacilities, dbStates, dbCities, cityScan,
                   offset, fetchFailed>>

\* the process is terminated
Kill ==
    /\ pc \notin {"idle", "done", "failed", "killed"}
    /\ pc' = "killed"
    /\ killed' = killed \cup {run}
    /\ UNCHANGED <<args, ret, source, failPages, outage, DRY_RUN, TRUNCATE, run,
                   store0, after1, fetchVars, allFacilities, skipped, facilities,
                   insertVars, dbVars, cityScan, offset, calls, fetchFailed,
                   storeFailed, credentials, requested, exitCode, checkVars,
                   maintenanceVars>>

\* main() is started again, with the same flags, against the same source; a
\* failing page or an unreachable store may have recovered
Rerun ==
    /\ pc \in {"done", "killed"}
    /\ run < MaxRuns
    /\ run' = run + 1
    /\ failPages' \in {failPages, {}}
    /\ outage' \in {outage, FALSE}
    /\ after1' = IF pc = "done" /\ after1 = <<>> THEN <<Store>> ELSE after1
    /\ pc' = "start" /\ page' = 1 /\ totalPages' = 1
    /\ rawFacilities' = <<>> /\ allFacilities' = <<>> /\ skipped' = 0
    /\ facilities' = <<>> /\ i' = 0 /\ k' = 0 /\ inserted' = 0 /\ errors' = 0
    /\ cityScan' = <<>> /\ offset' = 0 /\ calls' = <<>>
    /\ requested' = <<>> /\ exitCode' = <<>>
    /\ UNCHANGED <<args, ret, source, DRY_RUN, TRUNCATE, killed, store0, dbVars,
                   fetchFailed, storeFailed, credentials, checkVars,
                   maintenanceVars>>

Next ==
    \/ Start \/ CatchError \/ TruncateFacilities \/ TruncateCities \/ TruncateStates
    \/ FetchPage \/ Transform \/ Dedupe \/ InsertChunk \/ FallbackRecord
    \/ PopulateStates \/ CitiesReadPage \/ CitiesWrite \/ Verify \/ Rerun

Spec == Init /\ [][Next]_vars

NextInterrupted == Next \/ Kill

SpecInterrupted == InitSmall /\ [][NextInterrupted]_vars

---------------------------------------------------------------------------
(* The Change Detector: check-samhsa-update *)

\* record counts of the metadata row before the check
PriorCounts == {0, 100, 1000}

\* record counts the provider reports on its first page
LatestCounts == {0, 99, 101, 102, 990, 1005, 1010, 1011, 1050}

\* the instant of the check (new Date()); the row was written at instant 0
CheckInstant == 1

\* what the pipeline does not touch during a check
checkFrame ==
    <<ret, source, failPages, DRY_RUN, TRUNCATE, page, totalPages,
      rawFacilities, allFacilities, skipped, facilities, i, k, inserted,
      errors, dbFacilities, dbStates, dbCities, cityScan, offset, run,
      fetchFailed, storeFailed, killed, store0, after1, maintenanceVars>>

\* the facilities, states and cities left by an ingestion before the check
CheckedStore == RunResult(EmptyStore, <<<<RowS>>>>, FALSE, FALSE, 0)

\* args[1] is the provider's answer to the probe of page 1: <<>> when the
\* request fails, <<recordCount>> otherwise
InitCheck ==
    /\ args \in {<<probe>> : probe \in {<<>>} \cup {<<n>> : n \in LatestCounts}}
    /\ credentials \in BOOLEAN
    /\ outage \in BOOLEAN
    /\ dbMetadata \in {<<>>} \cup {<<MetadataRow(c, 0)>> : c \in PriorCounts}
    /\ pc = "check_metadata"
    /\ metadata = <<>> /\ latest = <<>> /\ result = <<>>
    /\ calls = <<>> /\ exitCode = <<>>
    /\ ret = <<>> /\ source = <<>> /\ failPages = {}
    /\ DRY_RUN = FALSE /\ TRUNCATE = FALSE /\ page = 1 /\ totalPages = 1
    /\ rawFacilities = <<>> /\ allFacilities = <<>> /\ skipped = 0
    /\ facilities = <<>> /\ i = 0 /\ k = 0 /\ inserted = 0 /\ errors = 0
    /\ dbFacilities = CheckedStore.facilities /\ dbStates = CheckedStore.states
    /\ dbCities = CheckedStore.cities
    /\ cityScan = <<>> /\ offset = 0 /\ run = 0
    /\ fetchFailed = {} /\ storeFailed = {} /\ killed = {}
    /\ store0 = <<Store>> /\ after1 = <<>> /\ requested = <<>>
    /\ duplicates = <<>> /\ deleted = 0

CheckResult(hasUpdate, currentCount, latestCount, error) ==
    [hasUpdate |-> hasUpdate, currentCount |-> currentCount,
     latestCount |-> latestCount, error |-> error]

\* getCurrentMetadata: null without credentials or on a database error, the
\* default of count 0 when the row (or the table) is not there
getCurrentMetadata ==
    IF ~credentials THEN <<>>
    ELSE IF outage THEN <<>>
    ELSE IF dbMetadata = <<>> THEN <<[record_count |-> 0]>>
    ELSE <<[record_count |-> dbMetadata[1].record_count]>>

\* checkForUpdate: const metadata = await getCurrentMetadata(); if (!metadata)
GetCurrentMetadata ==
    /\ pc = "check_metadata"
    /\ metadata' = getCurrentMetadata
    /\ calls' = IF credentials
                THEN Append(calls, Call("select", "data_metadata", 0, 0, ~outage))
                ELSE calls
    /\ IF metadata' = <<>>
       THEN /\ result' = <<CheckResult(FALSE, 0, <<>>, <<"metadata">>)>>
            /\ pc' = "check_exit"
       ELSE /\ result' = result
            /\ pc' = "check_probe"
    /\ UNCHANGED <<checkFrame, args, credentials, outage, dbMetadata, latest,
                   exitCode, requested>>

\* const latest = await fetchSAMHSARecordCount(): one request, for page 1
FetchSAMHSARecordCount ==
    /\ pc = "check_probe"
    /\ requested' = Append(requested, 1)
    /\ latest' = IF args[1] = <<>> THEN <<>> ELSE <<[recordCount |-> args[1][1]]>>
    /\ pc' = "check_stamp"
    /\ UNCHANGED <<checkFrame, args, credentials, outage, dbMetadata, metadata,
                   result, calls, exitCode>>

\* update({last_checked_at}).eq('id', 1): the row with id 1, if it is there
Stamped(down, rows, stamp) ==
    IF down THEN rows
    ELSE [n \in DOMAIN rows |->
             IF rows[n].id = 1 THEN [rows[n] EXCEPT !.last_checked_at = stamp]
             ELSE rows[n]]

\* await updateLastChecked()
UpdateLastChecked ==
    /\ pc = "check_stamp"
    /\ IF credentials
       THEN /\ dbMetadata' = Stamped(outage, dbMetadata, CheckInstant)
            /\ calls' = Append(calls, Call("update", "data_metadata", 0, 1, ~outage))
       ELSE UNCHANGED <<dbMetadata, calls>>
    /\ pc' = "check_compare"
    /\ UNCHANGED <<checkFrame, args, credentials, outage, checkVars, exitCode,
                   requested>>

\* a change of one percent counts as significant
hasSignificantChange_inclusive(latestCount, priorCount) ==
    \/ priorCount = 0
    \/ priorCount > 0 /\ Abs(latestCount - priorCount) * 100 >= priorCount

\* percentDiff > 0.01 || metadata.record_count === 0, where percentDiff is
\* Math.abs(latest - prior) / prior: Infinity or NaN for prior 0, negative for
\* a negative prior
hasSignificantChange(latestCount, priorCount) ==
    \/ priorCount = 0
    \/ priorCount > 0 /\ Abs(latestCount - priorCount) * 100 > priorCount

\* if (!latest) return ...; the comparison; return
Compare ==
    /\ pc = "check_compare"
    /\ result' =
          IF latest = <<>>
          THEN <<CheckResult(FALSE, metadata[1].record_count, <<>>, <<"source">>)>>
          ELSE <<CheckResult(hasSignificantChange(latest[1].recordCount,
                                                  metadata[1].record_count),
                             metadata[1].record_count,
                             <<latest[1].recordCount>>, <<>>)>>
    /\ pc' = "check_exit"
    /\ UNCHANGED <<checkFrame, args, credentials, outage, dbMetadata, metadata,
                   latest, calls, exitCode, requested>>

\* the exit code main() ends with whatever the result says
ExitCodeOf_ignoringError(r) == IF r.hasUpdate THEN 1 ELSE 0

\* main: process.exit(2) on result.error, 1 on result.hasUpdate, 0 otherwise
ExitCodeOf(r) ==
    IF r.error # <<>> THEN 2 ELSE IF r.hasUpdate THEN 1 ELSE 0

CheckExit ==
    /\ pc = "check_exit"
    /\ exitCode' = <<ExitCodeOf(result[1])>>
    /\ pc' = "exited"
    /\ UNCHANGED <<checkFrame, args, credentials, outage, dbMetadata, checkVars,
                   calls, requested>>

NextCheck ==
    \/ GetCurrentMetadata \/ FetchSAMHSARecordCount \/ UpdateLastChecked
    \/ Compare \/ CheckExit

SpecCheck == InitCheck /\ [][NextCheck]_vars

\* a check started after main() has ended, against the source main() read:
\* the provider answers the probe of page 1 with the recordCount of that
\* source, the number of its rows, or the request fails
StartCheck ==
    /\ pc = "done"
    /\ args' \in {<< <<>> >>, << <<Len(Flatten(source))>> >>}
    /\ pc' = "check_metadata"
    /\ metadata' = <<>> /\ latest' = <<>> /\ result' = <<>>
    /\ requested' = <<>> /\ exitCode' = <<>>
    /\ UNCHANGED <<ret, source, failPages, outage, DRY_RUN, TRUNCATE, page,
                   totalPages, rawFacilities, allFacilities, skipped, facilities,
                   insertVars, dbVars, cityScan, offset, calls, run, fetchFailed,
                   storeFailed, killed, store0, after1, credentials,
                   maintenanceVars>>

NextIngestThenCheck == Next \/ StartCheck \/ NextCheck

SpecIngestThenCheck == InitSmall /\ [][NextIngestThenCheck]_vars

---------------------------------------------------------------------------
(* The maintenance deduplication: dedupe-facilities *)

\* rows of the facilities table before the maintenance run
MaxStored == 3

\* RowA under another id, with the fields of RowG
RowA2 == [RowG EXCEPT !._irow = 21, !.name1 = <<"a">>]
\* RowB under another id
RowB2 == [RowB EXCEPT !._irow = 22]

\* stored rows: three with the natural key of RowA (two of them indexable,
\* with different scores), two more with that key and a low score, one alone
StoredRows ==
    {transformFacility(raw, 0)[1] : raw \in {RowA, RowA2, RowB, RowB2, RowS}}

\* the tables the model starts from: no id twice
StoredTables ==
    {t \in UNION {[1..n -> StoredRows] : n \in 0..MaxStored} :
        \A n, m \in DOMAIN t : n # m => t[n].external_id # t[m].external_id}

\* batchSize, pageSize
DELETE_BATCH == 100
MAINT_PAGE == 1000

\* .eq('is_indexable', true).order('dqs', {ascending: false}): the indexable
\* rows by descending score; the order of rows with one score is the store's
Indexable(r) == r.is_indexable

DqsDescOrders(rows) ==
    LET sel == SelectSeq(rows, Indexable)
    IN  {[n \in DOMAIN sel |-> sel[f[n]]] :
            f \in {g \in [DOMAIN sel -> DOMAIN sel] :
                      /\ \A n, m \in DOMAIN sel : n # m => g[n] # g[m]
                      /\ \A n, m \in DOMAIN sel :
                            n < m => sel[g[n]].dqs >= sel[g[m]].dqs}}

maintenanceFrame ==
    <<args, ret, source, failPages, outage, DRY_RUN, TRUNCATE, page, totalPages,
      rawFacilities, allFacilities, skipped, inserted, errors, dbStates,
      dbCities, dbMetadata, cityScan, run, fetchFailed, killed, store0, after1,
      requested, credentials, exitCode, checkVars>>

InitMaintenance ==
    /\ dbFacilities \in StoredTables
    /\ outage \in BOOLEAN
    /\ pc = "maint_read"
    /\ facilities = <<>> /\ offset = 0 /\ i = 0
    /\ duplicates = <<>> /\ deleted = 0 /\ calls = <<>>
    /\ args = <<>> /\ ret = <<>> /\ source = <<>> /\ failPages = {}
    /\ DRY_RUN = FALSE /\ TRUNCATE = FALSE /\ page = 1 /\ totalPages = 1
    /\ rawFacilities = <<>> /\ allFacilities = <<>> /\ skipped = 0
    /\ k = 0 /\ inserted = 0 /\ errors = 0
    /\ dbStates = <<>> /\ dbCities = <<>> /\ dbMetadata = <<>>
    /\ store0 = <<Store>>
    /\ cityScan = <<>> /\ run = 0
    /\ fetchFailed = {} /\ storeFailed = {} /\ killed = {}
    /\ after1 = <<>> /\ requested = <<>>
    /\ credentials = TRUE /\ exitCode = <<>>
    /\ metadata = <<>> /\ latest = <<>> /\ result = <<>>

\* dedupeFacilities: one turn of the read loop
MaintenanceRead ==
    /\ pc = "maint_read"
    /\ calls' = Append(calls, Call("select", "facilities", offset, MAINT_PAGE, ~outage))
    /\ storeFailed' = Failing(calls')
    /\ IF outage
       THEN /\ pc' = "maint_done"
            /\ UNCHANGED <<facilities, offset>>
       ELSE \E order \in DqsDescOrders(dbFacilities) :
              LET data == SelectRange(order, offset, offset + MAINT_PAGE - 1)
              IN  /\ facilities' = facilities \o data
                  /\ offset' = IF Len(data) > 0 THEN offset + MAINT_PAGE ELSE offset
                  /\ pc' = IF Len(data) = MAINT_PAGE THEN "maint_read"
                           ELSE "maint_group"
    /\ UNCHANGED <<maintenanceFrame, dbFacilities, i, k, duplicates, deleted>>

\* the ids of every record but the first of its group, group by group
DuplicateIds(list) ==
    LET keys == [n \in DOMAIN list |-> DedupeKey(list[n])]
        firsts == FirstIndices(keys)
        OfGroup(g) ==
            LET In(n) == n # firsts[g] /\ keys[n] = keys[firsts[g]]
            IN  SelectSeq([n \in DOMAIN list |-> n], In)
        ids == Flatten([g \in DOMAIN firsts |-> OfGroup(g)])
    IN  [n \in DOMAIN ids |-> list[ids[n]].external_id]

\* dedupeFacilities: the groups, the duplicates, the return when there is none
MaintenanceGroup ==
    /\ pc = "maint_group"
    /\ duplicates' = DuplicateIds(facilities)
    /\ pc' = IF Len(duplicates') = 0 THEN "maint_done" ELSE "maint_delete"
    /\ UNCHANGED <<maintenanceFrame, dbFacilities, facilities, offset, i, k,
                   deleted, calls, storeFailed>>

\* .delete().in('id', batch)
DeleteIds(down, rows, batch) ==
    LET Stays(r) == r.external_id \notin Range(batch)
    IN  IF down THEN rows ELSE SelectSeq(rows, Stays)

\* dedupeFacilities: one turn of the delete loop; after the last one, the count
MaintenanceDelete ==
    /\ pc = "maint_delete"
    /\ LET batch == SubSeq(duplicates, i + 1, Min(Len(duplicates), i + DELETE_BATCH))
       IN  /\ dbFacilities' = DeleteIds(outage, dbFacilities, batch)
           /\ deleted' = IF outage THEN deleted ELSE deleted + Len(batch)
           /\ i' = i + DELETE_BATCH
           /\ calls' =
                 IF i' < Len(duplicates)
                 THEN Append(calls, Call("delete", "facilities", i, Len(batch), ~outage))
                 ELSE calls \o <<Call("delete", "facilities", i, Len(batch), ~outage),
                                 Call("count", "facilities", 0, 0, ~outage)>>
           /\ pc' = IF i' < Len(duplicates) THEN "maint_delete" ELSE "maint_done"
    /\ storeFailed' = Failing(calls')
    /\ UNCHANGED <<maintenanceFrame, facilities, offset, k, duplicates>>

NextMaintenance == MaintenanceRead \/ MaintenanceGroup \/ MaintenanceDelete

SpecMaintenance == InitMaintenance /\ [][NextMaintenance]_vars

\* a table of more rows than one page of the read loop: indexable rows of
\* one score, each with a natural key of its own
LargeRaw(n) == [RowG EXCEPT !._irow = n, !.name1 = <<"f">> \o NatToString(n)]

LargeStored == [n \in 1..(MAINT_PAGE + BulkExtra) |-> transformFacility(LargeRaw(n), 0)[1]]

\* the large table, and the large table whose second row has the natural
\* key of the first
LargeTables ==
    {LargeStored,
     [LargeStored EXCEPT ![2] = [LargeStored[1] EXCEPT !.external_id = <<"2">>]]}

Reversed(s) == [n \in DOMAIN s |-> s[Len(s) + 1 - n]]

\* two of the orders the store may return the indexable rows in: by
\* descending score, the rows of one score in the order of the table, or in
\* the opposite order
TieOrders(rows) ==
    LET sel == SelectSeq(rows, Indexable)
    IN  {SortByDqsDesc(sel), SortByDqsDesc(Reversed(sel))}

InitMaintenanceLarge ==
    /\ \/ dbFacilities \in StoredTables
       \/ dbFacilities \in LargeTables
    /\ outage \in BOOLEAN
    /\ pc = "maint_read"
    /\ facilities = <<>> /\ offset = 0 /\ i = 0
    /\ duplicates = <<>> /\ deleted = 0 /\ calls = <<>>
    /\ args = <<>> /\ ret = <<>> /\ source = <<>> /\ failPages = {}
    /\ DRY_RUN = FALSE /\ TRUNCATE = FALSE /\ page = 1 /\ totalPages = 1
    /\ rawFacilities = <<>> /\ allFacilities = <<>> /\ skipped = 0
    /\ k = 0 /\ inserted = 0 /\ errors = 0
    /\ dbStates = <<>> /\ dbCities = <<>> /\ dbMetadata = <<>>
    /\ store0 = <<Store>>
    /\ cityScan = <<>> /\ run = 0
    /\ fetchFailed = {} /\ storeFailed = {} /\ killed = {}
    /\ after1 = <<>> /\ requested = <<>>
    /\ credentials = TRUE /\ exitCode = <<>>
    /\ metadata = <<>> /\ latest = <<>> /\ result = <<>>

\* dedupeFacilities: one turn of the read loop, the store choosing the order
\* of the rows of one score anew for every select
MaintenanceReadPage ==
    /\ pc = "maint_read"
    /\ calls' = Append(calls, Call("select", "facilities", offset, MAINT_PAGE, ~outage))
    /\ storeFailed' = Failing(calls')
    /\ IF outage
       THEN /\ pc' = "maint_done"
            /\ UNCHANGED <<facilities, offset>>
       ELSE \E order \in TieOrders(dbFacilities) :
              LET data == SelectRange(order, offset, offset + MAINT_PAGE - 1)
              IN  /\ facilities' = facilities \o data
                  /\ offset' = IF Len(data) > 0 THEN offset + MAINT_PAGE ELSE offset
                  /\ pc' = IF Len(data) = MAINT_PAGE THEN "maint_read"
                           ELSE "maint_group"
    /\ UNCHANGED <<maintenanceFrame, dbFacilities, i, k, duplicates, deleted>>

NextMaintenanceLarge == MaintenanceReadPage \/ MaintenanceGroup \/ MaintenanceDelete

SpecMaintenanceLarge == InitMaintenanceLarge /\ [][NextMaintenanceLarge]_vars

---------------------------------------------------------------------------
(* The count repair: fix-counts *)

\* const BATCH_SIZE = 100 (fix-counts.ts)
FIX_BATCH_SIZE == 100

\* reduce((sum, s) => sum + (s.facility_count || 0), 0)
RECURSIVE SumCounts(_)
SumCounts(rows) ==
    IF rows = <<>> THEN 0 ELSE Head(rows).facility_count + SumCounts(Tail(rows))

\* facility_count values a states or cities row holds before the repair
StaleCounts == {0, 3}

StateRowOH(c) == [code |-> <<"O","H">>, name |-> OHIO, slug |-> slugify(OHIO),
                  facility_count |-> c]
StateRowUT(c) == [code |-> <<"U","T">>, name |-> UTAH, slug |-> slugify(UTAH),
                  facility_count |-> c]

\* the states tables the repair starts from: no row, one state, both states
StatesTables ==
    {<<>>}
    \cup {<<StateRowOH(c)>> : c \in StaleCounts}
    \cup {<<StateRowUT(c)>> : c \in StaleCounts}
    \cup {<<StateRowOH(c), StateRowUT(d)>> : c \in StaleCounts, d \in StaleCounts}

CityRowC(c) == [name |-> <<"c">>, slug |-> <<"c">>, state_code |-> <<"O","H">>,
                facility_count |-> c, latitude |-> <<>>, longitude |-> <<>>]

CitiesTables == {<<>>} \cup {<<CityRowC(c)>> : c \in StaleCounts}

fixFrame ==
    <<args, source, failPages, outage, DRY_RUN, TRUNCATE, page, totalPages,
      rawFacilities, allFacilities, skipped, facilities, errors, dbFacilities,
      dbMetadata, run, fetchFailed, killed, store0, after1, requested,
      credentials, exitCode, checkVars, maintenanceVars>>

InitFixCounts ==
    /\ dbFacilities \in StoredTables
    /\ dbStates \in StatesTables
    /\ dbCities \in CitiesTables
    /\ outage \in BOOLEAN
    /\ pc = "fix_states_read"
    /\ i = 0 /\ k = 0 /\ offset = 0 /\ cityScan = <<>> /\ inserted = 0
    /\ calls = <<>> /\ ret = <<>>
    /\ args = <<>> /\ source = <<>> /\ failPages = {}
    /\ DRY_RUN = FALSE /\ TRUNCATE = FALSE /\ page = 1 /\ totalPages = 1
    /\ rawFacilities = <<>> /\ allFacilities = <<>> /\ skipped = 0
    /\ facilities = <<>> /\ errors = 0
    /\ dbMetadata = <<>>
    /\ store0 = <<Store>>
    /\ run = 0
    /\ fetchFailed = {} /\ storeFailed = {} /\ killed = {}
    /\ after1 = <<>> /\ requested = <<>>
    /\ credentials = TRUE /\ exitCode = <<>>
    /\ metadata = <<>> /\ latest = <<>> /\ result = <<>>
    /\ duplicates = <<>> /\ deleted = 0

\* select('*', {count: 'exact', head: true}).eq('is_indexable', true) on
\* the rows the further filters leave
CountIndexable(rows) == Len(SelectSeq(rows, Indexable))

\* fix-counts main, step 1: the select of the states
FixReadStates ==
    /\ pc = "fix_states_read"
    /\ calls' = Append(calls, Call("select", "states", 0,
                                   IF outage THEN 0 ELSE Len(Select(dbStates)),
                                   ~outage))
    /\ storeFailed' = Failing(calls')
    /\ i' = 0
    /\ pc' = IF outage THEN "fix_done"
             ELSE IF Len(Select(dbStates)) = 0 THEN "fix_cities_read"
             ELSE "fix_state"
    /\ UNCHANGED <<fixFrame, ret, dbStates, dbCities, k, offset, cityScan,
                   inserted>>

\* step 1, one turn of the loop over the states read (the rows keep their
\* place and code while their counts are updated): count, then update
FixState ==
    /\ pc = "fix_state"
    /\ LET state == dbStates[i + 1]
           InState(r) == r.state = state.code
           count == CountIndexable(SelectSeq(dbFacilities, InState))
       IN  /\ dbStates' = [dbStates EXCEPT ![i + 1].facility_count = count]
           /\ calls' = calls \o <<Call("count", "facilities", 0, 0, TRUE),
                                   Call("update", "states", i, 1, TRUE)>>
    /\ storeFailed' = Failing(calls')
    /\ i' = i + 1
    /\ pc' = IF i' < Len(Select(dbStates)) THEN "fix_state" ELSE "fix_cities_read"
    /\ UNCHANGED <<fixFrame, ret, dbCities, k, offset, cityScan, inserted>>

\* step 2: the select of one page of cities
FixCitiesReadPage ==
    /\ pc = "fix_cities_read"
    /\ LET cities == SelectRange(dbCities, offset, offset + FIX_BATCH_SIZE - 1)
       IN  /\ calls' = Append(calls, Call("select", "cities", offset, Len(cities), TRUE))
           /\ cityScan' = cities
           /\ pc' = IF Len(cities) = 0 THEN "fix_verify" ELSE "fix_city"
    /\ storeFailed' = Failing(calls')
    /\ k' = 0
    /\ UNCHANGED <<fixFrame, ret, dbStates, dbCities, i, offset, inserted>>

\* step 2, one turn of the loop over the page: count, then update
FixCity ==
    /\ pc = "fix_city"
    /\ LET city == cityScan[k + 1]
           InCity(r) == r.state = city.state_code /\ r.city_slug = city.slug
           count == CountIndexable(SelectSeq(dbFacilities, InCity))
       IN  /\ dbCities' =
                 [n \in DOMAIN dbCities |->
                     IF /\ dbCities[n].slug = city.slug
                        /\ dbCities[n].state_code = city.state_code
                     THEN [dbCities[n] EXCEPT !.facility_count = count]
                     ELSE dbCities[n]]
           /\ calls' = calls \o <<Call("count", "facilities", 0, 0, TRUE),
                                   Call("update", "cities", offset + k, 1, TRUE)>>
    /\ storeFailed' = Failing(calls')
    /\ inserted' = inserted + 1
    /\ k' = k + 1
    /\ IF k' < Len(cityScan)
       THEN pc' = "fix_city" /\ offset' = offset
       ELSE /\ offset' = offset + FIX_BATCH_SIZE
            /\ pc' = IF Len(cityScan) < FIX_BATCH_SIZE THEN "fix_verify"
                     ELSE "fix_cities_read"
    /\ UNCHANGED <<fixFrame, ret, dbStates, i, cityScan>>

\* step 3: totalIndexable, stateTotalCount, and whether they match
FixVerify ==
    /\ pc = "fix_verify"
    /\ LET totalIndexable == CountIndexable(dbFacilities)
           stateTotalCount == SumCounts(Select(dbStates))
       IN  ret' = <<[totalIndexable |-> totalIndexable,
                     stateTotalCount |-> stateTotalCount,
                     match |-> totalIndexable = stateTotalCount]>>
    /\ calls' = calls \o <<Call("count", "facilities", 0, 0, TRUE),
                            Call("select", "states", 0, Len(Select(dbStates)), TRUE),
                            Call("select", "states", 0, Min(5, Len(dbStates)), TRUE)>>
    /\ storeFailed' = Failing(calls')
    /\ pc' = "fix_done"
    /\ UNCHANGED <<fixFrame, dbStates, dbCities, i, k, offset, cityScan, inserted>>

NextFixCounts ==
    \/ FixReadStates \/ FixState \/ FixCitiesReadPage \/ FixCity \/ FixVerify

SpecFixCounts == InitFixCounts /\ [][NextFixCounts]_vars

---------------------------------------------------------------------------
(* Claims about the Record Transformer and the Deduplicator *)

PresentString(raw, f) == f \in DOMAIN raw /\ raw[f] # <<>>

PresentCoord(raw, f) == f \in DOMAIN raw /\ raw[f] # <<"s", <<>>>>

NonZeroCoord(raw, f) ==
    /\ f \in DOMAIN raw
    /\ raw[f] \in {<<"s", <<"4","0">>>>, <<"n", 40>>, <<"s", <<"-","8","3">>>>}

StringFieldCount(raw) ==
    Cardinality({f \in {"name1", "street1", "city", "state", "zip", "phone",
                        "website"} : PresentString(raw, f)})
    + Cardinality({f \in {"latitude", "longitude"} : PresentCoord(raw, f)})

ServiceEntries(raw) == IF "services" \in DOMAIN raw THEN Len(raw.services) ELSE 0

Bonuses(raw) ==
    (IF ServiceEntries(raw) > 3 THEN 30 ELSE IF ServiceEntries(raw) >= 1 THEN 15 ELSE 0)
    + (IF NonZeroCoord(raw, "latitude") /\ NonZeroCoord(raw, "longitude")
       THEN 20 ELSE 0)
    + (IF PresentString(raw, "phone") \/ PresentString(raw, "website")
          \/ PresentString(raw, "intake1") THEN 10 ELSE 0)

AllTenFields(raw) ==
    StringFieldCount(raw) = 9 /\ ServiceEntries(raw) > 3
    /\ NonZeroCoord(raw, "latitude") /\ NonZeroCoord(raw, "longitude")

\* C3: calculateDQS returns the same value on every call, the value is in
\* [0,1], and in hundredths it is 4 x (number of non-empty fields among the
\* ten, services being non-empty when it holds at least one entry) + the
\* bonuses; a complete row scores 1.00.
DqsAsClaimed ==
    \A n \in DOMAIN ret :
        /\ ret[n] = ret[1]
        /\ ret[n] \in 0..100
        /\ ret[n] = 4 * (StringFieldCount(args[1])
                         + (IF ServiceEntries(args[1]) >= 1 THEN 1 ELSE 0))
                    + Bonuses(args[1])
        /\ AllTenFields(args[1]) => ret[n] = 100

\* what calculateDQS computes: the same, the services field counting as
\* filled whenever the row has one, an empty array included
DqsAsAmended ==
    \A n \in DOMAIN ret :
        /\ ret[n] = ret[1]
        /\ ret[n] \in 0..100
        /\ ret[n] = 4 * (StringFieldCount(args[1])
                         + (IF "services" \in DOMAIN args[1] THEN 1 ELSE 0))
                    + Bonuses(args[1])
        /\ AllTenFields(args[1]) => ret[n] = 100

MissingRequired(raw) ==
    \E f \in {"name1", "city", "state"} : f \notin DOMAIN raw \/ raw[f] = <<>>

\* C4: transformFacility returns null for every row that is missing name,
\* city or state, and a record for every row that has all three.
TransformRejectsExactlyIncomplete ==
    ret # <<>> =>
        /\ (ret[1] = <<>>) <=> MissingRequired(args[1])
        /\ (ret[2] = <<>>) <=> MissingRequired(args[3])

\* a row with a name and a city whose state is the empty string was
\* rejected
TransformRejectWitness ==
    /\ ret # <<>> /\ ret[1] = <<>>
    /\ PresentString(args[1], "name1") /\ PresentString(args[1], "city")
    /\ "state" \in DOMAIN args[1] /\ args[1].state = <<>>

\* C5: two rows with identical name, city and state and different external
\* ids get two distinct slugs.
SlugsDistinct ==
    (/\ ret # <<>> /\ ret[1] # <<>> /\ ret[2] # <<>>
     /\ args[1].name1 = args[3].name1 /\ args[1].city = args[3].city
     /\ args[1].state = args[3].state
     /\ ret[1][1].external_id # ret[2][1].external_id)
    => ret[1][1].slug # ret[2][1].slug

NaturalKey(f) == <<f.name, OrEmpty(f.street1), f.city, f.state, OrEmpty(f.phone)>>

\* the record of all[n]'s natural-key group that is to survive: the highest
\* dqs, the earliest in the input among equals
Winner(all, n) ==
    LET group == {m \in DOMAIN all : NaturalKey(all[m]) = NaturalKey(all[n])}
    IN  CHOOSE m \in group :
            \A o \in group : \/ all[m].dqs > all[o].dqs
                             \/ all[m].dqs = all[o].dqs /\ m <= o

\* C2: for every input list (so for every permutation of it), the
\* deduplication keeps for each natural key (name, street1, city, state,
\* phone) the record of that key with the highest dqs, the first of the input
\* among those that tie, and no other record of the key.
DedupeKeepsBestPerKey ==
    ret # <<>> =>
        \A n \in DOMAIN args[1] :
            (args[1][n] \in Range(ret[1])) <=> (n = Winner(args[1], n))

\* what the code does keep: the best record of each joined key string
JoinedWinner(all, n) ==
    LET group == {m \in DOMAIN all : DedupeKey(all[m]) = DedupeKey(all[n])}
    IN  CHOOSE m \in group :
            \A o \in group : \/ all[m].dqs > all[o].dqs
                             \/ all[m].dqs = all[o].dqs /\ m <= o

DedupeKeepsBestPerJoinedKey ==
    ret # <<>> =>
        \A n \in DOMAIN args[1] :
            (args[1][n] \in Range(ret[1])) <=> (n = JoinedWinner(args[1], n))

---------------------------------------------------------------------------
(* Claims about the Batch Persister *)

FacilityWrites ==
    {n \in DOMAIN calls : /\ calls[n].table = "facilities"
                          /\ calls[n].op \in {"upsert", "upsert_one"}}

\* C1: every write call insertFacilities issues to the store carries at most
\* 1000 records, the chunk upserts and the per-record fallback alike.
WritesCarryAtMostOneThousand ==
    \A n \in FacilityWrites : calls[n].n <= 1000

\* a list of more than 1000 records was written: a full chunk, then the rest,
\* one chunk having been retried record by record
WritesWitness ==
    /\ Len(facilities) > 1000
    /\ \E n \in FacilityWrites : calls[n].op = "upsert" /\ calls[n].n = 1000
    /\ \E n \in FacilityWrites : calls[n].op = "upsert" /\ calls[n].first = 1000
    /\ \E n \in FacilityWrites : calls[n].op = "upsert_one"

\* insertFacilities has returned in a run that writes
InsertDone ==
    /\ pc \in {"states", "cities_read", "cities_write", "verify", "done"}
    /\ ~DRY_RUN

ChunkCalls ==
    {n \in FacilityWrites : calls[n].op = "upsert"}

ChunkStarts == {f \in 0..(Len(facilities) - 1) : f % 1000 = 0}

\* the record at position pos of the list is a row of the store
Persisted(pos) ==
    \E n \in DOMAIN dbFacilities : dbFacilities[n] = facilities[pos + 1]

\* a record submitted after position pos carries the same external id
Superseded(pos) ==
    \E later \in (pos + 2)..Len(facilities) :
        facilities[later].external_id = facilities[pos + 1].external_id

\* every chunk of the list is submitted, those after a failing one included,
\* and the records of a failing chunk are then upserted one by one, in order
FallbackCallsInOrder ==
    /\ {calls[n].first : n \in ChunkCalls} = ChunkStarts
    /\ \A n \in ChunkCalls :
          ~calls[n].ok =>
             \A j \in 0..(calls[n].n - 1) :
                /\ n + 1 + j \in DOMAIN calls
                /\ calls[n + 1 + j].op = "upsert_one"
                /\ calls[n + 1 + j].table = "facilities"
                /\ calls[n + 1 + j].first = calls[n].first + j

\* C10: when a chunk upsert fails, every record of that chunk is then
\* upserted on its own, each one the store accepts individually ends up
\* persisted, and the chunks after the failing one are still submitted.
FallbackPersistsAccepted ==
    InsertDone =>
        /\ FallbackCallsInOrder
        /\ \A n \in ChunkCalls :
              ~calls[n].ok =>
                 \A j \in 0..(calls[n].n - 1) :
                    calls[n + 1 + j].ok => Persisted(calls[n].first + j)

\* what does hold: an accepted record is a row of the store at the end
\* unless a later record of the list carries its external id
FallbackPersistsUnlessSuperseded ==
    InsertDone =>
        /\ FallbackCallsInOrder
        /\ \A n \in ChunkCalls :
              ~calls[n].ok =>
                 \A j \in 0..(calls[n].n - 1) :
                    calls[n + 1 + j].ok =>
                        \/ Persisted(calls[n].first + j)
                        \/ Superseded(calls[n].first + j)

---------------------------------------------------------------------------
(* Claims about the Aggregator *)

\* populateStates has returned in a run that writes and met no store error
StatesDone == pc = "cities_read" /\ ~DRY_RUN /\ run \notin storeFailed

\* populateCities has returned likewise
CitiesDone == pc = "verify" /\ ~DRY_RUN /\ run \notin storeFailed

\* C6: after populateStates the facility_count of the states rows sum to the
\* number of persisted facilities with is_indexable = true.
StateCountsSumToIndexable ==
    StatesDone =>
        SumCounts(dbStates) =
            Cardinality({n \in DOMAIN dbFacilities : dbFacilities[n].is_indexable})

RowsOfState(code) == {n \in DOMAIN dbFacilities : dbFacilities[n].state = code}

RowsOfCity(key) == {n \in DOMAIN dbFacilities : CityKey(dbFacilities[n]) = key}

StatesCoverEveryFacility ==
    \A code \in {dbFacilities[n].state : n \in DOMAIN dbFacilities} :
        \E m \in DOMAIN dbStates :
            /\ dbStates[m].code = code
            /\ dbStates[m].facility_count = Cardinality(RowsOfState(code))

CitiesCoverEveryFacility ==
    \A n \in DOMAIN dbFacilities :
        \E m \in DOMAIN dbCities :
            /\ dbCities[m].slug = dbFacilities[n].city_slug
            /\ dbCities[m].state_code = dbFacilities[n].state
            /\ dbCities[m].facility_count =
                  Cardinality(RowsOfCity(CityKey(dbFacilities[n])))

\* C7: the state rollup and the city rollup both account for every persisted
\* facility, also when the table holds more rows than one select returns.
RollupsCoverEveryFacility ==
    /\ StatesDone => StatesCoverEveryFacility
    /\ CitiesDone => CitiesCoverEveryFacility

\* the city rollup alone
CityRollupCoversEveryFacility == CitiesDone => CitiesCoverEveryFacility

---------------------------------------------------------------------------
(* Claims about whole runs *)

StateCounts(rows) == {<<rows[n].code, rows[n].facility_count>> : n \in DOMAIN rows}

CityCounts(rows) ==
    {<<rows[n].slug, rows[n].state_code, rows[n].facility_count>> :
        n \in DOMAIN rows}

\* two runs in sequence, both to the end, neither with a failed request or
\* store call
TwoCleanRuns ==
    /\ pc = "done" /\ run = 2 /\ after1 # <<>>
    /\ fetchFailed = {} /\ storeFailed = {} /\ killed = {}

\* C8: running the pipeline twice against an unchanged source, with no
\* failure in either run, leaves the number of facility rows and every
\* facility_count of states and cities after the second run as after the
\* first.
SecondRunKeepsCounts ==
    TwoCleanRuns =>
        /\ Len(dbFacilities) = Len(after1[1].facilities)
        /\ StateCounts(dbStates) = StateCounts(after1[1].states)
        /\ CityCounts(dbCities) = CityCounts(after1[1].cities)

\* two clean writing runs of a source with two facilities of different states
SecondRunWitness ==
    /\ TwoCleanRuns /\ ~DRY_RUN
    /\ Len(facilities) = 2
    /\ Cardinality(StateCounts(dbStates)) >= 2

\* a run was terminated, the next one ran to its end without a failure
ResumedCleanly ==
    /\ pc = "done" /\ run = 2 /\ killed = {1}
    /\ 2 \notin fetchFailed \cup storeFailed

\* C9: a run terminated after any step, followed by a run from scratch to
\* completion with no failures, leaves the facilities, states and cities
\* tables as one uninterrupted run from the same initial store leaves them.
ResumeConverges ==
    ResumedCleanly =>
        LET one == RunResult(store0[1], source, TRUNCATE, DRY_RUN, run)
        IN  /\ Range(dbFacilities) = Range(one.facilities)
            /\ Range(dbStates) = Range(one.states)
            /\ Range(dbCities) = Range(one.cities)

\* the same when the terminated run had met no failure either
ResumeConvergesAfterCleanStart ==
    (ResumedCleanly /\ fetchFailed = {} /\ storeFailed = {}) =>
        LET one == RunResult(store0[1], source, TRUNCATE, DRY_RUN, run)
        IN  /\ Range(dbFacilities) = Range(one.facilities)
            /\ Range(dbStates) = Range(one.states)
            /\ Range(dbCities) = Range(one.cities)

---------------------------------------------------------------------------
(* Claims about the counts insertFacilities reports *)

\* the calls that carried the record at position pos of the list
AttemptsInChunk(pos) ==
    {n \in ChunkCalls : calls[n].first <= pos /\ pos < calls[n].first + calls[n].n}

AttemptsAlone(pos) ==
    {n \in FacilityWrites : calls[n].op = "upsert_one" /\ calls[n].first = pos}

\* C11: every record whose per-record upsert also fails is counted once in
\* the failed count insertFacilities reports, so that inserted + failed is
\* the number of records submitted; a record is attempted at most once in a
\* chunk and at most once alone.
FailedCountAccountsForRecords ==
    InsertDone =>
        /\ inserted + errors = Len(facilities)
        /\ \A pos \in 0..(Len(facilities) - 1) :
              /\ Cardinality(AttemptsInChunk(pos)) <= 1
              /\ Cardinality(AttemptsAlone(pos)) <= 1

\* the attempts alone
AttemptedAtMostTwice ==
    InsertDone =>
        \A pos \in 0..(Len(facilities) - 1) :
            /\ Cardinality(AttemptsInChunk(pos)) <= 1
            /\ Cardinality(AttemptsAlone(pos)) <= 1

---------------------------------------------------------------------------
(* Claims about --dry-run *)

WriteOps == {"insert", "upsert", "upsert_one", "update", "delete"}

\* C12: with --dry-run no insert, upsert, update or delete is issued against
\* the store at any point of the run, also together with --truncate, and the
\* facilities, states, cities and data_metadata tables stay as they were.
DryRunWritesNothing ==
    DRY_RUN =>
        /\ \A n \in DOMAIN calls : calls[n].op \notin WriteOps
        /\ Store = store0[1]

\* a dry run with --truncate over a store that holds rows reached its end,
\* having gone through the insertion of a non-empty list
DryRunWitness ==
    /\ DRY_RUN /\ TRUNCATE /\ pc = "done"
    /\ store0[1].facilities # <<>>
    /\ inserted > 0

---------------------------------------------------------------------------
(* Claims about the Source Client *)

\* fetchAllFacilities has returned
FetchDone == pc = "transform"

\* the rows of the pages whose request does not fail, in page order
RowsOfAnsweredPages ==
    Flatten([p \in DOMAIN source |-> IF p \in failPages THEN <<>> ELSE source[p]])

\* C13: a failed request for a single page k, page 1 included, does not end
\* the fetch: every page from 1 to the server's total is still requested, and
\* the rows of every page other than k are in the result.
FailedPageDoesNotEndFetch ==
    FetchDone =>
        /\ \A p \in 1..Len(source) : p \in Range(requested)
        /\ rawFacilities = RowsOfAnsweredPages

\* the same when the failed page is not the first one
FailedLaterPageDoesNotEndFetch ==
    (FetchDone /\ 1 \notin failPages) =>
        /\ \A p \in 1..Len(source) : p \in Range(requested)
        /\ rawFacilities = RowsOfAnsweredPages

\* the total the provider reports (data.totalPages || 1)
ReportedTotal == IF Len(source) = 0 THEN 1 ELSE Len(source)

\* the pages up to the reported total that answer with zero rows
ZeroRowPages ==
    {p \in 1..ReportedTotal : p \notin failPages /\ PageRows(p) = <<>>}

\* the page after which the requests are to stop: the first page with zero
\* rows, or the last page
LastPageToRequest == Minimum(ZeroRowPages \cup {ReportedTotal})

\* C14: fetchAllFacilities requests pages 1, 2, 3, ... in increasing order,
\* each at most once, and stops exactly when the page index exceeds the total
\* reported on the first page or when a page returns zero rows, whichever
\* comes first.
FetchStopsAtTotalOrEmptyPage ==
    /\ \A n \in DOMAIN requested : requested[n] = n
    /\ (FetchDone /\ 1 \notin failPages) =>
            Len(requested) = LastPageToRequest

\* increasing order, each page at most once, and the stop at the total
FetchStopsAtTotal ==
    /\ \A n \in DOMAIN requested : requested[n] = n
    /\ (FetchDone /\ 1 \notin failPages) =>
            Len(requested) = ReportedTotal

---------------------------------------------------------------------------
(* Claims about the Change Detector *)

\* checkForUpdate has returned a result without an error
Compared == result # <<>> /\ result[1].error = <<>>

\* the record count the comparison starts from
PriorCount == IF dbMetadata = <<>> THEN 0 ELSE dbMetadata[1].record_count

\* C15: when the metadata read and the source probe both succeed,
\* checkForUpdate returns hasUpdate = true exactly when the prior count is 0 or
\* |latest - prior| / prior is strictly above 1%: with prior 1000, latest 1005
\* and 1010 give false and 1050 gives true; with prior 0 every latest gives
\* true, 0 included.
HasUpdateIffAboveOnePercent ==
    Compared =>
        LET prior == PriorCount
            new   == args[1][1]
            has   == result[1].hasUpdate
        IN  /\ has <=> (prior = 0 \/ Abs(new - prior) * 100 > prior)
            /\ (prior = 1000 /\ new \in {1005, 1010}) => ~has
            /\ (prior = 1000 /\ new = 1050) => has
            /\ prior = 0 => has

\* a check of latest 1010 against prior 1000, exactly one percent above, ended
\* without an update
HasUpdateWitness ==
    /\ pc = "exited" /\ Compared
    /\ PriorCount = 1000 /\ args[1] = <<1010>>
    /\ ~result[1].hasUpdate

\* the store was asked to write the last-checked timestamp
StampAttempts ==
    {n \in DOMAIN calls : calls[n].op = "update" /\ calls[n].table = "data_metadata"}

\* C16: every execution of checkForUpdate writes the last-checked timestamp,
\* whatever the outcome: update found, no update, failed source probe, failed
\* metadata read.
EveryCheckStamps ==
    result # <<>> => StampAttempts # {}

\* the same for the executions in which the metadata was read
CheckStampsAfterMetadataRead ==
    (result # <<>> /\ metadata # <<>>) => StampAttempts # {}

\* the metadata read or the source probe failed
CheckFailed == ~credentials \/ outage \/ args[1] = <<>>

\* C17: the Change Detector process exits 2 exactly when the metadata read or
\* the source probe failed (missing credentials included), 1 exactly when
\* there was no error and hasUpdate is true, 0 exactly when there was no error
\* and hasUpdate is false.
ExitCodeTellsOutcome ==
    pc = "exited" =>
        /\ exitCode = <<2>> <=> CheckFailed
        /\ exitCode = <<1>> <=> (~CheckFailed /\ result[1].hasUpdate)
        /\ exitCode = <<0>> <=> (~CheckFailed /\ ~result[1].hasUpdate)

\* a check whose probe failed after the metadata was read ended with 2
ExitCodeWitness ==
    /\ pc = "exited" /\ exitCode = <<2>>
    /\ metadata # <<>> /\ args[1] = <<>>

---------------------------------------------------------------------------
(* Claims about the configuration of the ingestion *)

\* C18: when the store credentials are missing, the ingestion aborts before
\* any source request and any store write, and the process ends with a
\* non-zero exit code.
MissingCredentialsAbortNonZero ==
    ~credentials =>
        /\ requested = <<>>
        /\ calls = <<>>
        /\ Store = store0[1]
        /\ exitCode # <<>> => exitCode # <<0>>

\* the abort before any source request and any store call
MissingCredentialsAbort ==
    ~credentials =>
        /\ requested = <<>>
        /\ calls = <<>>
        /\ Store = store0[1]
        /\ pc \in {"start", "rejected", "failed"}

---------------------------------------------------------------------------
(* Claims about the maintenance deduplication *)

\* dedupeFacilities returned and no call to the store failed
MaintenanceDone == pc = "maint_done" /\ storeFailed = {}

\* the rows of the table before the run with the natural key of row r
GroupBefore(r) ==
    {n \in DOMAIN store0[1].facilities :
        NaturalKey(store0[1].facilities[n]) = NaturalKey(r)}

\* C19: after the maintenance deduplication completes with no store error,
\* no two remaining facilities share the natural key (name, street1, city,
\* state, phone), and the record remaining for a key has the highest dqs of
\* its group.
MaintenanceLeavesBestPerKey ==
    MaintenanceDone =>
        /\ \A n, m \in DOMAIN dbFacilities :
              n # m => NaturalKey(dbFacilities[n]) # NaturalKey(dbFacilities[m])
        /\ \A n \in DOMAIN dbFacilities :
              \A m \in GroupBefore(dbFacilities[n]) :
                  store0[1].facilities[m].dqs <= dbFacilities[n].dqs

\* the same among the indexable rows, every other row being left in place
MaintenanceLeavesBestIndexablePerKey ==
    MaintenanceDone =>
        LET before == store0[1].facilities
        IN
        /\ \A n, m \in DOMAIN dbFacilities :
              (n # m /\ dbFacilities[n].is_indexable /\ dbFacilities[m].is_indexable)
                  => NaturalKey(dbFacilities[n]) # NaturalKey(dbFacilities[m])
        /\ \A n \in DOMAIN dbFacilities :
              dbFacilities[n].is_indexable =>
                  \A m \in GroupBefore(dbFacilities[n]) :
                      before[m].dqs <= dbFacilities[n].dqs
        /\ \A m \in DOMAIN before :
              ~before[m].is_indexable => before[m] \in Range(dbFacilities)
        /\ \A m \in DOMAIN before :
              before[m].is_indexable =>
                  \E n \in DOMAIN dbFacilities :
                      /\ dbFacilities[n].is_indexable
                      /\ NaturalKey(dbFacilities[n]) = NaturalKey(before[m])

\* a run that deleted a record
MaintenanceDeleted == MaintenanceDone /\ deleted > 0

\* C27: the maintenance deduplication never deletes every record of a
\* natural-key group: for each natural key among the facilities fetched, at
\* least one facility with that key remains, for every order in which the
\* store returns the rows of one dqs on successive page reads (a row may be
\* returned on two pages).
MaintenanceKeepsOnePerKey ==
    pc \in {"maint_delete", "maint_done"} =>
        {DedupeKey(facilities[n]) : n \in DOMAIN facilities}
            \subseteq {DedupeKey(dbFacilities[n]) : n \in DOMAIN dbFacilities}

\* no row was fetched twice
FetchedOnce ==
    Cardinality({facilities[n].external_id : n \in DOMAIN facilities})
        = Len(facilities)

\* the same when the read loop returned no row twice
MaintenanceKeepsOnePerKeyWhenFetchedOnce ==
    (pc \in {"maint_delete", "maint_done"} /\ FetchedOnce) =>
        {DedupeKey(facilities[n]) : n \in DOMAIN facilities}
            \subseteq {DedupeKey(dbFacilities[n]) : n \in DOMAIN dbFacilities}

---------------------------------------------------------------------------
(* Claims about the counts a run reports *)

\* no insert, upsert, update or delete of the run failed
NoWriteFailed ==
    \A n \in DOMAIN calls : calls[n].op \in WriteOps => calls[n].ok

\* the transformed records that have the natural key of an earlier one
DedupedOut ==
    {n \in DOMAIN allFacilities :
        \E m \in 1..(n - 1) :
            NaturalKey(allFacilities[m]) = NaturalKey(allFacilities[n])}

\* four rows over three pages, every page answered: a pair with one natural
\* key, a row without a city, a fourth row
CountsScenario ==
    /\ source = <<<<RowA, RowB>>, <<RowC>>, <<RowG>>>>
    /\ failPages = {}

\* C20: at the end of every run the reported counts satisfy fetched =
\* transformed + skipped and transformed = survivors + deduped-out, and when
\* no write fails persisted = survivors; 4 fetched rows over 3 pages with one
\* duplicate-key pair and one row without a city give 3 transformed, 1
\* skipped, 1 deduped-out and 2 persisted.
ReportedCountsAddUp ==
    pc = "done" =>
        /\ Len(rawFacilities) = Len(allFacilities) + skipped
        /\ Len(allFacilities) = Len(facilities) + duplicatesRemoved
        /\ duplicatesRemoved = Cardinality(DedupedOut)
        /\ NoWriteFailed => inserted = Len(facilities)
        /\ CountsScenario =>
              /\ Len(rawFacilities) = 4
              /\ Len(allFacilities) = 3
              /\ skipped = 1
              /\ duplicatesRemoved = 1
              /\ NoWriteFailed => inserted = 2

\* the scenario run reached its end with every write accepted
ReportedCountsWitness ==
    /\ pc = "done" /\ CountsScenario
    /\ ~DRY_RUN /\ NoWriteFailed
    /\ inserted = 2 /\ Len(dbFacilities) >= 2

---------------------------------------------------------------------------
(* Claims about indexability *)

\* the records transformFacility returned
ProducedRecords ==
    {ret[n][1] : n \in {m \in DOMAIN ret : ret[m] # <<>>}}

\* C21: every record produced by transformFacility has is_indexable = true
\* exactly when its dqs is at least 0.70.
IndexableIffDqsAtLeast70 ==
    (pc = "idle" /\ ret # <<>>) =>
        \A r \in ProducedRecords : r.is_indexable <=> r.dqs >= 70

\* a record with dqs exactly 0.70 was produced and is indexable
IndexableWitness ==
    /\ pc = "idle" /\ ret # <<>>
    /\ \E r \in ProducedRecords : r.dqs = 70 /\ r.is_indexable

\* the same for the rows of the facilities table during a run of main()
WrittenRowsIndexableIffDqsAtLeast70 ==
    \A n \in DOMAIN dbFacilities :
        dbFacilities[n].is_indexable <=> dbFacilities[n].dqs >= 70


\* C30: no record whose services array is absent or empty is marked
\* indexable: for every raw record with zero service entries,
\* transformFacility yields is_indexable = false.
NoServicesNotIndexable ==
    (pc = "idle" /\ ret # <<>> /\ servicesCount(args[1]) = 0) =>
        \A r \in ProducedRecords : ~r.is_indexable

\* the same for the records without a services property
AbsentServicesNotIndexable ==
    (pc = "idle" /\ ret # <<>> /\ ~Has(args[1], "services")) =>
        \A r \in ProducedRecords : ~r.is_indexable

---------------------------------------------------------------------------
(* Claims about the order of the stages *)

\* the reads of the facilities table made by populateStates and populateCities
RollupReads ==
    {n \in DOMAIN calls : calls[n].table = "facilities" /\ calls[n].op = "select"}

BeforeDedupeEnds ==
    {"start", "rejected", "failed", "truncate_facilities", "truncate_cities",
     "truncate_states", "fetch", "transform", "dedupe"}

\* C22: in every pipeline run the stages are strictly ordered: every record
\* is scored before the deduplication starts, the deduplication finishes
\* before the first facility write, and the last facility write finishes
\* before the first read made by the rollup aggregation.
StagesStrictlyOrdered ==
    /\ pc = "dedupe" =>
          /\ Len(allFacilities) + skipped = Len(rawFacilities)
          /\ allFacilities = TransformAll(rawFacilities)[1]
          /\ facilities = <<>>
    /\ pc \in BeforeDedupeEnds => FacilityWrites = {}
    /\ (pc = "insert" /\ FacilityWrites = {}) =>
          facilities = FirstPerKey(allFacilities)
    /\ pc \in {"insert", "fallback"} => RollupReads = {}
    /\ \A r \in RollupReads :
          \A w \in (r + 1)..Len(calls) : w \notin FacilityWrites

\* a run in which the deduplication removed a record, facilities were written
\* and the rollups read them reached its end
StagesWitness ==
    /\ pc = "done"
    /\ Len(facilities) < Len(allFacilities)
    /\ FacilityWrites # {} /\ RollupReads # {}

---------------------------------------------------------------------------
(* Claims about the city rollup *)

\* the persisted facilities of a city row that are indexable
IndexableRowsOfCity(c) ==
    {n \in DOMAIN dbFacilities :
        /\ dbFacilities[n].is_indexable
        /\ dbFacilities[n].city_slug = c.slug
        /\ dbFacilities[n].state = c.state_code}

\* C23: after an aggregation pass completes with no store error, every row
\* of the cities table, the rows written by an earlier pass included, has
\* facility_count equal to the number of persisted facilities with
\* is_indexable = true and the same (city_slug, state) pair.
CityCountsAreIndexableCounts ==
    CitiesDone =>
        \A m \in DOMAIN dbCities :
            dbCities[m].facility_count =
                Cardinality(IndexableRowsOfCity(dbCities[m]))

\* every row of the cities table counts the persisted facilities of its
\* (city_slug, state) pair, indexable or not
CityCountsAreRowCounts ==
    CitiesDone =>
        \A m \in DOMAIN dbCities :
            dbCities[m].facility_count =
                Cardinality({n \in DOMAIN dbFacilities :
                                /\ dbFacilities[n].city_slug = dbCities[m].slug
                                /\ dbFacilities[n].state = dbCities[m].state_code})

\* the rows of a city's group, in scan order, with both coordinates
CompletePairs(c) ==
    {n \in DOMAIN dbFacilities :
        /\ dbFacilities[n].city_slug = c.slug
        /\ dbFacilities[n].state = c.state_code
        /\ dbFacilities[n].latitude # <<>>
        /\ dbFacilities[n].longitude # <<>>}

\* C24: for every city rollup written by populateCities, (latitude,
\* longitude) is the pair of the first record in scan order of its (city_slug,
\* state) group whose latitude and longitude are both non-null, or (null,
\* null) when the group has no such record; a stored pair is never half null.
CityCoordinatesAreFirstCompletePair ==
    CitiesDone =>
        \A m \in DOMAIN dbCities :
            LET c == dbCities[m]
                pairs == CompletePairs(c)
            IN  /\ (c.latitude = <<>>) <=> (c.longitude = <<>>)
                /\ IF pairs = {}
                   THEN c.latitude = <<>> /\ c.longitude = <<>>
                   ELSE /\ c.latitude = dbFacilities[Minimum(pairs)].latitude
                        /\ c.longitude = dbFacilities[Minimum(pairs)].longitude

\* no facility row has one coordinate without the other, or a coordinate 0
PairsWholeAndNonZero ==
    \A n \in DOMAIN dbFacilities :
        /\ (dbFacilities[n].latitude = <<>>) <=> (dbFacilities[n].longitude = <<>>)
        /\ dbFacilities[n].latitude # <<0>>

\* the same when no facility row has half a pair or a latitude 0
CityCoordinatesWhenPairsWhole ==
    (CitiesDone /\ PairsWholeAndNonZero) =>
        \A m \in DOMAIN dbCities :
            LET c == dbCities[m]
                pairs == CompletePairs(c)
            IN  /\ (c.latitude = <<>>) <=> (c.longitude = <<>>)
                /\ IF pairs = {}
                   THEN c.latitude = <<>> /\ c.longitude = <<>>
                   ELSE /\ c.latitude = dbFacilities[Minimum(pairs)].latitude
                        /\ c.longitude = dbFacilities[Minimum(pairs)].longitude

---------------------------------------------------------------------------
(* Claims about what a check leaves behind *)

\* the writes of the check are updates of the metadata row, and the tables
\* and the recorded counts are as before the check
CheckWritesOnlyLastChecked ==
    /\ \A n \in DOMAIN calls :
          calls[n].op \in WriteOps =>
              calls[n].op = "update" /\ calls[n].table = "data_metadata"
    /\ dbFacilities = store0[1].facilities
    /\ dbStates = store0[1].states
    /\ dbCities = store0[1].cities
    /\ Len(dbMetadata) = Len(store0[1].metadata)
    /\ \A n \in DOMAIN dbMetadata :
          /\ dbMetadata[n].id = store0[1].metadata[n].id
          /\ dbMetadata[n].record_count = store0[1].metadata[n].record_count
          /\ dbMetadata[n].last_updated = store0[1].metadata[n].last_updated

\* C25: checkForUpdate is advisory only: it issues exactly one request to the
\* source (page 1), the only store write it can make is to last_checked_at
\* of the metadata row, and the facilities, states and cities tables and the
\* recorded record_count are unchanged by it in every execution.
CheckIsAdvisory ==
    /\ CheckWritesOnlyLastChecked
    /\ result # <<>> => requested = <<1>>

\* at most one request, for page 1, and exactly one once the metadata is read
CheckIsAdvisoryAtMostOneRequest ==
    /\ CheckWritesOnlyLastChecked
    /\ requested \in {<<>>, <<1>>}
    /\ (result # <<>> /\ metadata # <<>>) => requested = <<1>>

---------------------------------------------------------------------------
(* Claims about the count repair *)

\* fix-counts ran to its end and no call to the store failed
FixCountsDone == pc = "fix_done" /\ ret # <<>> /\ storeFailed = {}

\* C26: after the fix-counts script completes with no store error, for every
\* prior content of the states and facilities tables, the sum of
\* facility_count over the states table equals the number of facilities with
\* is_indexable = true: the script's own final check reports a match.
FixCountsMatch ==
    FixCountsDone =>
        /\ ret[1].match
        /\ SumCounts(dbStates) =
              Cardinality({n \in DOMAIN dbFacilities : dbFacilities[n].is_indexable})

\* every state with a facility has a row in the states table
StatesTableComplete ==
    \A n \in DOMAIN dbFacilities :
        \E m \in DOMAIN dbStates : dbStates[m].code = dbFacilities[n].state

\* the same when every state with a facility has its row before the repair
FixCountsMatchWhenStatesComplete ==
    (FixCountsDone /\ StatesTableComplete) =>
        /\ ret[1].match
        /\ SumCounts(dbStates) =
              Cardinality({n \in DOMAIN dbFacilities : dbFacilities[n].is_indexable})

---------------------------------------------------------------------------
(* Claims about the external ids of a run *)

\* the places of rawFacilities whose record transformFacility accepts
AcceptedPlaces == {n \in DOMAIN rawFacilities : ~Rejected(rawFacilities[n])}

\* C29: within one run, two distinct raw records that transformFacility
\* accepts never receive the same external_id, the records without _irow,
\* which take their ordinal index, included; so no upsert of a run
\* overwrites another record of that run.
ExternalIdsDistinct ==
    pc = "dedupe" =>
        \A n \in AcceptedPlaces : \A m \in AcceptedPlaces :
            (n < m /\ rawFacilities[n] # rawFacilities[m])
            => ExternalId(rawFacilities[n], n - 1)
                  # ExternalId(rawFacilities[m], m - 1)

\* the same for the records that carry their own _irow, a different one each
ExternalIdsDistinctWithIrow ==
    pc = "dedupe" =>
        \A n \in AcceptedPlaces : \A m \in AcceptedPlaces :
            (/\ n < m
             /\ "_irow" \in DOMAIN rawFacilities[n]
             /\ "_irow" \in DOMAIN rawFacilities[m]
             /\ rawFacilities[n]._irow # 0
             /\ rawFacilities[m]._irow # 0
             /\ rawFacilities[n]._irow # rawFacilities[m]._irow)
            => ExternalId(rawFacilities[n], n - 1)
                  # ExternalId(rawFacilities[m], m - 1)

---------------------------------------------------------------------------
(* Claims about a check after an ingestion *)

\* the check has returned, and the run of main() before it was a whole
\* non-dry run in which no page request and no store call failed
CheckedAfterCleanRun ==
    /\ pc \in {"check_exit", "exited"} /\ result # <<>>
    /\ ~DRY_RUN
    /\ run \notin fetchFailed \cup storeFailed

\* C28: after a full non-dry-run ingestion with no fetch or write failure, a
\* checkForUpdate run against the same unchanged source returns
\* hasUpdate = false, whatever the content of the source and whatever share
\* of its records was rejected or removed as duplicates.
NoUpdateAfterIngestion ==
    CheckedAfterCleanRun => ~result[1].hasUpdate

\* the same when the facilities table holds as many rows as the source has
\* records, and at least one
NoUpdateWhenEveryRecordPersisted ==
    (/\ CheckedAfterCleanRun
     /\ Len(dbFacilities) = Len(Flatten(source))
     /\ Len(dbFacilities) > 0)
    => ~result[1].hasUpdate

====
